---- MODULE Spec2Model ----
(***************************************************************************)
(* gh-governor: reconciliation of declarative organisation policy against  *)
(* the state of GitHub repositories.                                       *)
(*                                                                         *)
(* The model covers prepare_merged / merge_sets_for_repo (configuration    *)
(* resolution), the diff functions, and handle_repos (the plan / apply     *)
(* loop over the selected repositories) together with the part of the      *)
(* GitHub REST behaviour that the client functions of github.rs rely on.   *)
(*                                                                         *)
(* Representation                                                          *)
(*   Option<T>   None is <<>>, Some(v) is <<v>>                            *)
(*   String      a sequence of tokens where the code looks inside the      *)
(*               string (branch names, paths, colours, file contents); a   *)
(*               TLA+ string where it is only compared (names, titles)     *)
(*   Vec<T>      a sequence                                                *)
(***************************************************************************)
EXTENDS Integers, Sequences, FiniteSets, TLC

\* ------------------------------------------------------------------------
\* Bounds of the model
\* ------------------------------------------------------------------------
\* number of consecutive invocations of the tool that are explored
MaxRuns == 2

\* ------------------------------------------------------------------------
\* Option and sequence helpers
\* ------------------------------------------------------------------------
None == <<>>

Some(v) == <<v>>

IsSome(o) == Len(o) > 0

IsNone(o) == Len(o) = 0

Unwrap(o) == o[1]

UnwrapOr(o, d) == IF IsSome(o) THEN o[1] ELSE d

Range(s) == {s[i] : i \in 1..Len(s)}

StartsWith(s, p) == Len(s) >= Len(p) /\ SubSeq(s, 1, Len(p)) = p

EndsWith(s, p) == Len(s) >= Len(p) /\ SubSeq(s, Len(s) - Len(p) + 1, Len(s)) = p

RECURSIVE SeqFilter(_, _)
SeqFilter(s, keep) ==
    IF s = <<>> THEN <<>>
    ELSE (IF Head(s) \in keep THEN <<Head(s)>> ELSE <<>>) \o SeqFilter(Tail(s), keep)

\* every ordering of a finite set as a sequence
Perms(S) ==
    {s \in [1..Cardinality(S) -> S] : \A i, j \in 1..Cardinality(S) : i # j => s[i] # s[j]}

\* ------------------------------------------------------------------------
\* Names and their order (String::cmp restricted to the names in use)
\* ------------------------------------------------------------------------
NameOrder == <<"bug", "feat", "old", "wip">>

NameRank(n) == CHOOSE i \in 1..Len(NameOrder) : NameOrder[i] = n

\* insertion of x into a sequence sorted by name, after equal names (stable)
RECURSIVE InsertByName(_, _)
InsertByName(s, x) ==
    IF s = <<>> THEN <<x>>
    ELSE IF NameRank(x.name) < NameRank(Head(s).name) THEN <<x>> \o s
    ELSE <<Head(s)>> \o InsertByName(Tail(s), x)

\* v.sort_by(|a, b| a.name.cmp(&b.name))
RECURSIVE SortByName(_)
SortByName(s) ==
    IF s = <<>> THEN <<>>
    ELSE InsertByName(SortByName(SubSeq(s, 1, Len(s) - 1)), s[Len(s)])

IsSortedByName(s) ==
    \A i \in 1..Len(s) : \A j \in 1..Len(s) : i < j => NameRank(s[i].name) =< NameRank(s[j].name)

\* ------------------------------------------------------------------------
\* Strings the code looks inside
\* ------------------------------------------------------------------------
PR_BRANCH_PREFIX == <<"gh-governor/updates-">>

MainBranch == <<"main">>

\* the files staged on the base branch itself
GovernanceBranchIsBase(base_branch) == base_branch

\* format!("{PR_BRANCH_PREFIX}{base_branch}")
GovernanceBranch(base_branch) == PR_BRANCH_PREFIX \o base_branch

PR_BODY == "Automated .github updates via gh-governor"

\* format!("gh-governor updates ({})", Utc::now().format("%Y-%m-%d"))
PrTitle(day) == <<"gh-governor updates", day>>

GithubDir == ".github/"

TemplateDir == <<".github/", "ISSUE_TEMPLATE/">>

ConfigYml == <<"config", ".yml">>

IndexPath == TemplateDir \o ConfigYml

\* index of the first ".github/" token of a path, 0 when there is none
FindGithub(path) ==
    IF \E i \in 1..Len(path) : path[i] = GithubDir
    THEN CHOOSE i \in 1..Len(path) :
            path[i] = GithubDir /\ \A j \in 1..(i - 1) : path[j] # GithubDir
    ELSE 0

short_github_path(path) ==
    LET idx == FindGithub(path)
    IN  IF idx > 0 THEN SubSeq(path, idx, Len(path)) ELSE path

\* tokens that are directory components (they end in '/')
DirTokens == {".github/", "ISSUE_TEMPLATE/", "sets/", "core/"}

ExtTokens == {".yml", ".yaml"}

LastDir(path) ==
    IF \E i \in 1..Len(path) : path[i] \in DirTokens
    THEN CHOOSE i \in 1..Len(path) :
            path[i] \in DirTokens /\ \A j \in (i + 1)..Len(path) : path[j] \notin DirTokens
    ELSE 0

\* Path::new(path).file_name()
file_name(path) ==
    IF LastDir(path) < Len(path) THEN Some(SubSeq(path, LastDir(path) + 1, Len(path))) ELSE None

\* Path::new(path).file_stem()
file_stem(path) ==
    IF IsNone(file_name(path)) THEN None
    ELSE LET f == Unwrap(file_name(path))
         IN  IF Len(f) > 1 /\ f[Len(f)] \in ExtTokens
             THEN Some(SubSeq(f, 1, Len(f) - 1)) ELSE Some(f)

\* ------------------------------------------------------------------------
\* Label colours
\* ------------------------------------------------------------------------
RECURSIVE TrimHash(_)
TrimHash(c) == IF c # <<>> /\ Head(c) = "#" THEN TrimHash(Tail(c)) ELSE c

LowerToken(t) ==
    CASE t = "FF0000" -> "ff0000"
      [] t = "00FF00" -> "00ff00"
      [] OTHER -> t

\* c.trim_start_matches('#').to_lowercase()
TrimLower(c) == [i \in 1..Len(TrimHash(c)) |-> LowerToken(TrimHash(c)[i])]

\* diff.rs normalize_color: Option<String> -> Option<String>
diff_normalize_color(color) == IF IsSome(color) THEN Some(TrimLower(Unwrap(color))) ELSE None

DefaultColor == <<"ededed">>

\* github.rs normalize_color: Option<String> -> String, "ededed" when unset or empty
normalize_color(color) ==
    IF IsSome(color) /\ TrimLower(Unwrap(color)) # <<>>
    THEN TrimLower(Unwrap(color)) ELSE DefaultColor

\* ------------------------------------------------------------------------
\* diff.rs
\* ------------------------------------------------------------------------
\* current.iter().find(|c| c.name == want.name)
FindLabel(current, name) ==
    IF \E i \in 1..Len(current) : current[i].name = name
    THEN Some(current[CHOOSE i \in 1..Len(current) :
                 current[i].name = name /\ \A j \in 1..(i - 1) : current[j].name # name])
    ELSE None

\* a test that looks at the colour only
NeedsUpdateColorOnly(want, existing) ==
    diff_normalize_color(Some(existing.color)) # diff_normalize_color(want.color)

\* the test of diff_labels that puts a desired label in to_update
NeedsUpdate(want, existing) ==
    LET same_color == diff_normalize_color(Some(existing.color)) = diff_normalize_color(want.color)
        same_desc == existing.description = want.description
    IN  ~same_color \/ ~same_desc

diff_labels(desired, current) ==
    LET add == SelectSeq(desired, LAMBDA want : IsNone(FindLabel(current, want.name)))
        upd == SelectSeq(desired, LAMBDA want :
                   /\ IsSome(FindLabel(current, want.name))
                   /\ NeedsUpdate(want, Unwrap(FindLabel(current, want.name))))
        gone == SelectSeq(current, LAMBDA existing :
                   ~\E i \in 1..Len(desired) : desired[i].name = existing.name)
        rem == [i \in 1..Len(gone) |->
                   [name |-> gone[i].name,
                    color |-> diff_normalize_color(Some(gone[i].color)),
                    description |-> gone[i].description]]
    IN  [to_add |-> SortByName(add), to_update |-> SortByName(upd), to_remove |-> SortByName(rem)]

BoolFields ==
    <<"allow_merge_commit", "allow_squash_merge", "allow_rebase_merge",
      "allow_auto_merge", "delete_branch_on_merge">>

BoolStr(b) == IF b THEN <<"true">> ELSE <<"false">>

\* settings.rs map_squash_option: (title, message)
map_squash_option(opt) ==
    CASE opt = "DefaultMessage" -> <<Some("CommitOrPrTitle"), Some("CommitMessages")>>
      [] opt = "PullRequestTitle" -> <<Some("PrTitle"), Some("Blank")>>
      [] opt = "PullRequestTitleAndCommitDetails" -> <<Some("PrTitle"), Some("CommitMessages")>>
      [] opt = "PullRequestTitleAndDescription" -> <<Some("PrTitle"), Some("PrBody")>>

\* settings.rs map_merge_message_option: (title, message)
map_merge_message_option(opt) ==
    CASE opt = "DefaultMessage" -> <<Some("MergeMessage"), Some("PrTitle")>>
      [] opt = "PullRequestTitle" -> <<Some("PrTitle"), Some("PrTitle")>>
      [] opt = "PullRequestTitleAndDescription" -> <<Some("PrTitle"), Some("PrBody")>>

\* a check that skips a field the remote does not report
CheckBoolSkipUnset(field, want, have) ==
    IF IsSome(want) /\ IsSome(have) /\ have # Some(Unwrap(want))
    THEN <<[field |-> field, current |-> Some(BoolStr(Unwrap(have))),
            desired |-> BoolStr(Unwrap(want))]>>
    ELSE <<>>

\* the closure `check` of diff_repo_settings, for one boolean field
CheckBool(field, want, have) ==
    IF IsSome(want) /\ have # Some(Unwrap(want))
    THEN <<[field |-> field,
            current |-> IF IsSome(have) THEN Some(BoolStr(Unwrap(have))) ELSE None,
            desired |-> BoolStr(Unwrap(want))]>>
    ELSE <<>>

RECURSIVE CheckBools(_, _, _)
CheckBools(fields, desired_pr, current_pr) ==
    IF fields = <<>> THEN <<>>
    ELSE CheckBool(Head(fields), desired_pr[Head(fields)],
                   IF IsSome(current_pr) THEN Unwrap(current_pr)[Head(fields)] ELSE None)
         \o CheckBools(Tail(fields), desired_pr, current_pr)

\* an option that cannot be read back is left out of the diff
OptionChangeNever(field, opt, pair) == <<>>

\* the change entry of an enumerated option: current is always reported unset
OptionChange(field, opt, pair) ==
    IF IsSome(opt) /\ (IsSome(pair[1]) \/ IsSome(pair[2]))
    THEN <<[field |-> field, current |-> None,
            desired |-> <<UnwrapOr(pair[1], "unset"), "/", UnwrapOr(pair[2], "unset")>>]>>
    ELSE <<>>

diff_repo_settings(desired, current) ==
    IF IsNone(desired.pull_requests) THEN [changes |-> <<>>]
    ELSE LET desired_pr == Unwrap(desired.pull_requests)
             current_pr == current.pull_requests
             mopt == desired_pr.merge_commit_message_option
             sopt == desired_pr.squash_merge_option
         IN  [changes |->
                CheckBools(BoolFields, desired_pr, current_pr)
                \o OptionChange("merge_commit_message_option", mopt,
                       IF IsSome(mopt) THEN map_merge_message_option(Unwrap(mopt)) ELSE <<None, None>>)
                \o OptionChange("squash_merge_option", sopt,
                       IF IsSome(sopt) THEN map_squash_option(Unwrap(sopt)) ELSE <<None, None>>)]

\* ------------------------------------------------------------------------
\* app.rs merge_branch_rule
\* ------------------------------------------------------------------------
RuleFields ==
    {"required_status_checks", "required_pull_request_reviews", "enforce_admins",
     "restrictions", "allow_force_pushes", "allow_deletions", "block_creations",
     "require_linear_history", "required_conversation_resolution", "required_signatures"}

\* a merge in which a value of the current rule replaces the desired one
merge_branch_ruleCurrentWins(desired, current) ==
    IF IsNone(current) THEN desired
    ELSE [f \in DOMAIN desired |->
            IF f \in RuleFields /\ IsSome(Unwrap(current)[f]) THEN Unwrap(current)[f]
            ELSE desired[f]]

merge_branch_rule(desired, current) ==
    IF IsNone(current) THEN desired
    ELSE [f \in DOMAIN desired |->
            IF f \in RuleFields /\ IsNone(desired[f]) THEN Unwrap(current)[f] ELSE desired[f]]

\* ------------------------------------------------------------------------
\* merge.rs
\* ------------------------------------------------------------------------
\* position of the entry of a keyed sequence that has the key, 0 when absent
KeyIndex(s, field, key) ==
    IF \E i \in 1..Len(s) : s[i][field] = key
    THEN CHOOSE i \in 1..Len(s) : s[i][field] = key
    ELSE 0

\* labels.insert(name, label): replaces the entry of an existing key
MapInsert(s, field, x) ==
    IF KeyIndex(s, field, x[field]) > 0
    THEN [s EXCEPT ![KeyIndex(s, field, x[field])] = x]
    ELSE Append(s, x)

\* a scalar merge in which the later definition silently replaces the earlier
merge_or_conflictLastWins(existing, incoming, what) ==
    [err |-> None, value |-> Some(incoming)]

merge_or_conflict(existing, incoming, what) ==
    IF IsSome(existing) /\ Unwrap(existing) # incoming
    THEN [err |-> Some([kind |-> "GenericConflict", what |-> <<what>>]), value |-> existing]
    ELSE IF IsSome(existing) THEN [err |-> None, value |-> existing]
    ELSE [err |-> None, value |-> Some(incoming)]

\* a merge of labels in which the first definition of a name silently wins
MergeLabelsFirstWins(acc, labels) ==
    IF IsSome(acc.err) THEN acc
    ELSE [acc EXCEPT !.labels =
            @ \o SelectSeq(labels, LAMBDA l : KeyIndex(acc.labels, "name", l.name) = 0)]

RECURSIVE MergeLabels(_, _)
MergeLabels(acc, labels) ==
    IF labels = <<>> \/ IsSome(acc.err) THEN acc
    ELSE LET label == Head(labels)
             at == KeyIndex(acc.labels, "name", label.name)
         IN  IF at > 0 /\ acc.labels[at] # label
             THEN [acc EXCEPT !.err = Some([kind |-> "LabelConflict", what |-> <<label.name>>])]
             ELSE MergeLabels([acc EXCEPT !.labels = MapInsert(acc.labels, "name", label)],
                              Tail(labels))

\* a merge of templates that accepts a repeated path when the contents are equal
MergeTemplatesIdenticalAllowed(acc, templates) ==
    LET clash == {k \in DOMAIN templates :
                    \E t \in Range(acc.templates) :
                        t.path = templates[k].path /\ t.contents # templates[k].contents}
        first == CHOOSE k \in clash : \A m \in clash : k <= m
    IN  IF IsSome(acc.err) THEN acc
        ELSE IF clash # {}
        THEN [acc EXCEPT !.err = Some([kind |-> "TemplateConflict",
                                       what |-> templates[first].path])]
        ELSE [acc EXCEPT !.templates =
                @ \o SelectSeq(templates,
                               LAMBDA t : KeyIndex(acc.templates, "path", t.path) = 0)]

RECURSIVE MergeTemplates(_, _)
MergeTemplates(acc, templates) ==
    IF templates = <<>> \/ IsSome(acc.err) THEN acc
    ELSE LET template == Head(templates)
         IN  IF KeyIndex(acc.templates, "path", template.path) > 0
             THEN [acc EXCEPT !.err = Some([kind |-> "TemplateConflict", what |-> template.path])]
             ELSE MergeTemplates([acc EXCEPT !.templates = Append(acc.templates, template)],
                                 Tail(templates))

\* a scalar merge that keeps the first definition and never reports a conflict
MergeScalarKeepFirst(acc, field, incoming, what) ==
    IF IsSome(acc.err) \/ IsNone(incoming) \/ IsSome(acc[field]) THEN acc
    ELSE [acc EXCEPT ![field] = incoming]

MergeScalar(acc, field, incoming, what) ==
    IF IsSome(acc.err) \/ IsNone(incoming) THEN acc
    ELSE LET r == merge_or_conflict(acc[field], Unwrap(incoming), what)
         IN  [acc EXCEPT ![field] = r.value, !.err = r.err]

\* the body of `for set in sets` in merge_sets_for_repo
MergeOneSet(acc, set) ==
    MergeScalar(
      MergeScalar(
        MergeScalar(
          MergeTemplates(MergeLabels(acc, set.labels), set.issue_templates),
          "repo_settings", set.repo_settings, "repo settings"),
        "branch_protection", set.branch_protection, "branch protection"),
      "checks", set.checks, "checks")

RECURSIVE MergeSets(_, _)
MergeSets(acc, sets) ==
    IF sets = <<>> \/ IsSome(acc.err) THEN acc
    ELSE MergeSets(MergeOneSet(acc, Head(sets)), Tail(sets))

MergeStart ==
    [labels |-> <<>>, templates |-> <<>>, repo_settings |-> None,
     branch_protection |-> None, checks |-> None, err |-> None]

\* merge_sets_for_repo: the possible results.  Labels are sorted by name; the
\* issue templates come out of HashMap::into_values, whose order is arbitrary,
\* so every ordering of the merged templates is a possible result.
merge_sets_for_repo(sets) ==
    LET acc == MergeSets(MergeStart, sets)
    IN  IF IsSome(acc.err) THEN {[ok |-> FALSE, err |-> Unwrap(acc.err)]}
        ELSE {[ok |-> TRUE,
               cfg |-> [labels |-> SortByName(acc.labels),
                        issue_templates |-> ts,
                        repo_settings |-> acc.repo_settings,
                        branch_protection |-> acc.branch_protection,
                        checks |-> acc.checks]] : ts \in Perms(Range(acc.templates))}

\* ------------------------------------------------------------------------
\* app.rs: template conflicts and the synthesized template index
\* ------------------------------------------------------------------------
RECURSIVE DetectInSet(_, _, _)
DetectInSet(seen, templates, set_name) ==
    IF templates = <<>> THEN [seen |-> seen, err |-> None]
    ELSE LET tpl == Head(templates)
             key == short_github_path(tpl.path)
             at == KeyIndex(seen, "key", key)
         IN  IF at > 0
             THEN IF seen[at].contents # tpl.contents
                  THEN [seen |-> seen,
                        err |-> Some([key |-> key, first |-> seen[at].set, later |-> set_name])]
                  ELSE DetectInSet(seen, Tail(templates), set_name)
             ELSE DetectInSet(Append(seen, [key |-> key, contents |-> tpl.contents,
                                            set |-> set_name]),
                              Tail(templates), set_name)

\* a detection that stops after the first set
DetectLoopFirstSetOnly(seen, sets) ==
    IF sets = <<>> THEN None
    ELSE DetectInSet(seen, Head(sets).issue_templates, Head(sets).name).err

RECURSIVE DetectLoop(_, _)
DetectLoop(seen, sets) ==
    IF sets = <<>> THEN None
    ELSE LET r == DetectInSet(seen, Head(sets).issue_templates, Head(sets).name)
         IN  IF IsSome(r.err) THEN r.err ELSE DetectLoop(r.seen, Tail(sets))

\* detect_template_conflicts: None for Ok(()), Some(reason) for Err(reason)
detect_template_conflicts(sets) == DetectLoop(<<>>, sets)

IsIndexPath(path) == EndsWith(short_github_path(path), ConfigYml)

\* the value of the first line of a file that has the key
LineValue(contents, key) ==
    IF \E i \in 1..Len(contents) : contents[i][1] = key
    THEN Some(contents[CHOOSE i \in 1..Len(contents) :
                 contents[i][1] = key /\ \A j \in 1..(i - 1) : contents[j][1] # key][2])
    ELSE None

parse_template_name(contents) == LineValue(contents, "name")

parse_template_description(contents) == LineValue(contents, "description")

\* one IssueTemplateEntry, serialized (unset name / description are skipped)
EntryLines(tpl) ==
    LET name == IF IsSome(parse_template_name(tpl.contents))
                THEN parse_template_name(tpl.contents) ELSE file_stem(tpl.path)
        description == parse_template_description(tpl.contents)
        file == UnwrapOr(file_name(tpl.path), tpl.path)
    IN  (IF IsSome(name) THEN <<<<"entry.name", Unwrap(name)>>>> ELSE <<>>)
        \o (IF IsSome(description) THEN <<<<"entry.description", Unwrap(description)>>>> ELSE <<>>)
        \o <<<<"entry.file", file>>>>

RECURSIVE EntriesLines(_)
EntriesLines(templates) ==
    IF templates = <<>> THEN <<>>
    ELSE EntryLines(Head(templates)) \o EntriesLines(Tail(templates))

\* the fields of an existing index that survive: blank_issues_enabled, contact_links
PreservedLines(contents) ==
    SelectSeq(contents, LAMBDA l : l[1] = "blank_issues_enabled")
    \o SelectSeq(contents, LAMBDA l : l[1] = "contact_links")

build_issue_template_config(templates) ==
    LET bases == SelectSeq(templates, LAMBDA t : IsIndexPath(t.path))
        others == SelectSeq(templates, LAMBDA t : ~IsIndexPath(t.path))
    IN  IF others = <<>> /\ bases = <<>> THEN None
        ELSE Some([path |-> IndexPath,
                   contents |->
                     (IF bases # <<>> THEN PreservedLines(bases[1].contents) ELSE <<>>)
                     \o <<<<"issue_templates", <<>>>>>>
                     \o EntriesLines(others)])

\* lines 87-96 of handle_repos
DesiredTemplates(issue_templates) ==
    SelectSeq(issue_templates, LAMBDA t : ~IsIndexPath(t.path))
    \o build_issue_template_config(issue_templates)

\* ------------------------------------------------------------------------
\* The configuration on disk: the sets and the root configuration
\* ------------------------------------------------------------------------
LBug == [name |-> "bug", color |-> Some(<<"#", "FF0000">>), description |-> Some("bug")]

LBugGreen == [name |-> "bug", color |-> Some(<<"00ff00">>), description |-> Some("bug")]

LFeat == [name |-> "feat", color |-> None, description |-> None]

TBug ==
    [path |-> TemplateDir \o <<"bug", ".yml">>,
     contents |-> <<<<"name", <<"Bug">>>>, <<"description", <<"A bug">>>>, <<"body", <<"b1">>>>>>]

TBugOther ==
    [path |-> TemplateDir \o <<"bug", ".yml">>,
     contents |-> <<<<"name", <<"Bug">>>>, <<"body", <<"b2">>>>>>]

TFeature ==
    [path |-> TemplateDir \o <<"feature", ".yml">>, contents |-> <<<<"body", <<"f1">>>>>>]

TConfig ==
    [path |-> IndexPath, contents |-> <<<<"blank_issues_enabled", <<"false">>>>>>]

NoPullRequests ==
    [allow_merge_commit |-> None, allow_squash_merge |-> None, allow_rebase_merge |-> None,
     allow_auto_merge |-> None, delete_branch_on_merge |-> None,
     merge_commit_message_option |-> None, squash_merge_option |-> None]

NoRule(pattern) ==
    [pattern |-> pattern, required_status_checks |-> None,
     required_pull_request_reviews |-> None, enforce_admins |-> None, restrictions |-> None,
     allow_force_pushes |-> None, allow_deletions |-> None, block_creations |-> None,
     require_linear_history |-> None, required_conversation_resolution |-> None,
     required_signatures |-> None]

RuleMain ==
    [NoRule(MainBranch) EXCEPT
       !.enforce_admins = Some(TRUE),
       !.required_status_checks =
           Some([strict |-> Some(TRUE), contexts |-> Some(<<"ci">>), checks |-> None])]

SettingsBools ==
    [pull_requests |-> Some([NoPullRequests EXCEPT !.allow_merge_commit = Some(FALSE),
                                                   !.delete_branch_on_merge = Some(TRUE)]),
     branch_protection |-> Some([rules |-> <<RuleMain>>])]

SettingsOption ==
    [pull_requests |-> Some([NoPullRequests EXCEPT !.allow_squash_merge = Some(TRUE),
                                                   !.squash_merge_option = Some("PullRequestTitle")]),
     branch_protection |-> None]

EmptySet(name) ==
    [name |-> name, labels |-> <<>>, issue_templates |-> <<>>, repo_settings |-> None,
     branch_protection |-> None, checks |-> None]

SetLibrary ==
    [base   |-> [EmptySet("base") EXCEPT !.labels = <<LBug>>, !.issue_templates = <<TBug>>,
                                         !.repo_settings = Some(SettingsBools),
                                         !.branch_protection = Some([rules |-> <<RuleMain>>]),
                                         !.checks = Some([require_codeowners |-> TRUE,
                                                          warn_on_inactive_owners |-> TRUE])],
     extra  |-> [EmptySet("extra") EXCEPT !.labels = <<LBug, LFeat>>,
                                          !.issue_templates = <<TFeature>>],
     opts   |-> [EmptySet("opts") EXCEPT !.repo_settings = Some(SettingsOption)],
     clash  |-> [EmptySet("clash") EXCEPT !.labels = <<LBugGreen>>],
     dup    |-> [EmptySet("dup") EXCEPT !.issue_templates = <<TBug>>],
     fork   |-> [EmptySet("fork") EXCEPT !.issue_templates = <<TBugOther>>],
     index  |-> [EmptySet("index") EXCEPT !.issue_templates = <<TConfig>>]]

\* sets::load_set: the set directory must exist
load_set(name) ==
    IF name \in DOMAIN SetLibrary THEN [ok |-> TRUE, set |-> SetLibrary[name]]
    ELSE [ok |-> FALSE]

\* ------------------------------------------------------------------------
\* app.rs prepare_merged
\* ------------------------------------------------------------------------
MergeConflict(repo, reason) == [kind |-> "MergeConflict", repo |-> repo, reason |-> reason]

\* the possible results of prepare_merged: the selected repositories are
\* resolved in configuration order and the first error is returned
RECURSIVE PrepareLoop(_, _, _, _)
PrepareLoop(repos, default_sets, only_repos, merged) ==
    IF repos = <<>> THEN {[ok |-> TRUE, merged |-> merged]}
    ELSE LET repo == Head(repos)
             set_names == default_sets \o repo.sets
             set_defs == [i \in 1..Len(set_names) |-> load_set(set_names[i]).set]
         IN  IF only_repos # <<>> /\ repo.name \notin Range(only_repos)
             THEN PrepareLoop(Tail(repos), default_sets, only_repos, merged)
             ELSE IF \E i \in 1..Len(set_names) : ~load_set(set_names[i]).ok
             THEN {[ok |-> FALSE, err |-> [kind |-> "MissingConfig", repo |-> repo.name,
                                           reason |-> <<>>]]}
             ELSE IF set_defs = <<>>
             THEN PrepareLoop(Tail(repos), default_sets, only_repos, merged)
             ELSE IF IsSome(detect_template_conflicts(set_defs))
             THEN {[ok |-> FALSE,
                    err |-> MergeConflict(repo.name,
                                          <<Unwrap(detect_template_conflicts(set_defs))>>)]}
             ELSE UNION {IF m.ok
                         THEN PrepareLoop(Tail(repos), default_sets, only_repos,
                                          Append(merged, [name |-> repo.name, cfg |-> m.cfg]))
                         ELSE {[ok |-> FALSE, err |-> MergeConflict(repo.name, <<m.err>>)]}
                         : m \in merge_sets_for_repo(set_defs)}

prepare_merged(root, only_repos) == PrepareLoop(root.repos, root.default_sets, only_repos, <<>>)

\* ------------------------------------------------------------------------
\* github.rs: the client functions, over the state of one remote repository
\*
\* A remote repository is a record
\*   exists, default_branch, settings, bp_forbidden, protection (rules by
\*   pattern), branches (set of [name, files]), labels (in API order, by
\*   name), issues (label name -> the issues and PRs that carry it), prs
\*   (newest first), unreadable (the blobs the contents API serves in an
\*   encoding other than base64).
\* A commit SHA stands for the tree it names, a blob SHA for its contents.
\* Every function returns [ok, remote, value]; ok = FALSE is Err(..).
\* ------------------------------------------------------------------------
Ok(rem, value) == [ok |-> TRUE, remote |-> rem, value |-> value]

Failed(rem) == [ok |-> FALSE, remote |-> rem, value |-> None]

HasBranch(rem, name) == \E b \in rem.branches : b.name = name

BranchOf(rem, name) == CHOOSE b \in rem.branches : b.name = name

HasFile(files, path) == \E f \in files : f.path = path

FileAt(files, path) == CHOOSE f \in files : f.path = path

CommitSha(files) == <<"commit", files>>

BlobSha(contents) == <<"blob", contents>>

WithBranch(rem, name, files) ==
    [rem EXCEPT !.branches = {b \in @ : b.name # name} \cup {[name |-> name, files |-> files]}]

\* get_repo: the repository model, RepoNotFound when it does not exist
get_repo(rem) == IF rem.exists THEN Ok(rem, rem) ELSE Failed(rem)

\* get_repo_settings: the five booleans of the repository model; the two
\* options cannot be read back
get_repo_settings(rem) ==
    IF ~rem.exists THEN Failed(rem)
    ELSE Ok(rem, [pull_requests |->
                    Some([f \in DOMAIN NoPullRequests |->
                            IF f \in Range(BoolFields) THEN rem.settings[f] ELSE None]),
                  branch_protection |-> None])

\* a request that carries every boolean, an unset one as false
update_repo_settingsAllBooleans(rem, settings) ==
    LET pr == settings.pull_requests
    IN  Ok([rem EXCEPT !.settings =
              [f \in DOMAIN @ |->
                 IF f \in Range(BoolFields)
                 THEN Some(IsSome(pr) /\ Unwrap(pr)[f] = Some(TRUE))
                 ELSE @[f]]], None)

update_repo_settings(rem, settings) ==
    LET pr == settings.pull_requests
        mopt == IF IsSome(pr) THEN Unwrap(pr).merge_commit_message_option ELSE None
        sopt == IF IsSome(pr) THEN Unwrap(pr).squash_merge_option ELSE None
        mm == IF IsSome(mopt) THEN map_merge_message_option(Unwrap(mopt)) ELSE <<None, None>>
        sq == IF IsSome(sopt) THEN map_squash_option(Unwrap(sopt)) ELSE <<None, None>>
        body == [f \in DOMAIN rem.settings |->
                   CASE f \in Range(BoolFields) -> IF IsSome(pr) THEN Unwrap(pr)[f] ELSE None
                     [] f = "merge_commit_title" -> mm[1]
                     [] f = "merge_commit_message" -> mm[2]
                     [] f = "squash_merge_commit_title" -> sq[1]
                     [] f = "squash_merge_commit_message" -> sq[2]]
    IN  IF \A f \in DOMAIN body : IsNone(body[f]) THEN Ok(rem, None)
        ELSE Ok([rem EXCEPT !.settings =
                    [f \in DOMAIN body |-> IF IsSome(body[f]) THEN body[f] ELSE @[f]]], None)

list_repo_labels(rem) == Ok(rem, rem.labels)

create_label(rem, label) ==
    IF KeyIndex(rem.labels, "name", label.name) > 0 THEN Failed(rem)
    ELSE Ok([rem EXCEPT !.labels =
                InsertByName(@, [name |-> label.name,
                                 color |-> normalize_color(label.color),
                                 description |-> Some(UnwrapOr(label.description, ""))])],
            None)

update_label(rem, label) ==
    LET at == KeyIndex(rem.labels, "name", label.name)
    IN  IF at = 0 THEN Failed(rem)
        ELSE Ok([rem EXCEPT !.labels[at] =
                    [name |-> label.name,
                     color |-> normalize_color(label.color),
                     description |-> IF IsSome(label.description)
                                     THEN label.description ELSE @.description]],
                None)

delete_label(rem, label_name) ==
    IF KeyIndex(rem.labels, "name", label_name) = 0 THEN Failed(rem)
    ELSE Ok([rem EXCEPT !.labels = SelectSeq(@, LAMBDA l : l.name # label_name)], None)

VerbosePageLimit == 10

QuietPageLimit == 1

Min(a, b) == IF a < b THEN a ELSE b

\* page p (from 1) of a listing with the given page size
PageOf(items, p, size) == SubSeq(items, (p - 1) * size + 1, Min(p * size, Len(items)))

HasNextPage(items, p, size) == Len(items) > p * size

collect_issue_refs(issues) ==
    [i \in 1..Len(issues) |->
        [number |-> issues[i].number, url |-> Some(issues[i].number), is_pr |-> issues[i].is_pr]]

\* the `while let Some(next)` loop of label_usage, p pages read so far
RECURSIVE UsageLoop(_, _, _, _)
UsageLoop(items, entries, p, page_limit) ==
    IF ~HasNextPage(items, p, page_limit) THEN entries
    ELSE LET more == entries \o collect_issue_refs(PageOf(items, p + 1, page_limit))
         IN  IF Len(more) >= page_limit THEN more
             ELSE UsageLoop(items, more, p + 1, page_limit)

\* the quiet mode looking only at whether there is a second page
label_usageNextPageOnly(rem, label_name, include_details) ==
    LET page_limit == IF include_details THEN VerbosePageLimit ELSE QuietPageLimit
        items == rem.issues[label_name]
        first == collect_issue_refs(PageOf(items, 1, page_limit))
        entries == IF include_details THEN UsageLoop(items, first, 1, page_limit)
                   ELSE IF HasNextPage(items, 1, page_limit)
                        THEN <<[number |-> 0, url |-> None, is_pr |-> FALSE]>>
                        ELSE <<>>
    IN  Ok(rem, IF entries = <<>> THEN None ELSE Some(entries))

label_usage(rem, label_name, include_details) ==
    LET page_limit == IF include_details THEN VerbosePageLimit ELSE QuietPageLimit
        items == rem.issues[label_name]
        first == collect_issue_refs(PageOf(items, 1, page_limit))
        entries == IF include_details THEN UsageLoop(items, first, 1, page_limit)
                   ELSE IF HasNextPage(items, 1, page_limit)
                        THEN Append(first, [number |-> 0, url |-> None, is_pr |-> FALSE])
                        ELSE first
    IN  Ok(rem, IF entries = <<>> THEN None ELSE Some(entries))

\* the branch a contents request without ?ref= reads: the default branch
RefBranch(rem, branch) == IF IsSome(branch) THEN branch ELSE rem.default_branch

get_file(rem, path, branch) ==
    LET ref == RefBranch(rem, branch)
    IN  IF IsNone(ref) \/ ~HasBranch(rem, Unwrap(ref)) THEN Ok(rem, None)
        ELSE LET files == BranchOf(rem, Unwrap(ref)).files
             IN  IF HasFile(files, path) /\ FileAt(files, path) \in rem.unreadable
                 THEN Ok(rem, None)
                 ELSE IF HasFile(files, path)
                 THEN Ok(rem, Some([sha |-> BlobSha(FileAt(files, path).contents),
                                    content |-> FileAt(files, path).contents]))
                 ELSE Ok(rem, None)

\* PUT contents: a new file takes no sha, an existing one the sha of its blob
put_file(rem, path, content, sha, branch) ==
    IF IsNone(branch) \/ ~HasBranch(rem, Unwrap(branch)) THEN Failed(rem)
    ELSE LET files == BranchOf(rem, Unwrap(branch)).files
             present == HasFile(files, path)
         IN  IF (present /\ sha # Some(BlobSha(FileAt(files, path).contents)))
                \/ (~present /\ IsSome(sha))
             THEN Failed(rem)
             ELSE Ok(WithBranch(rem, Unwrap(branch),
                                {f \in files : f.path # path}
                                \cup {[path |-> path, contents |-> content]}), None)

delete_file(rem, path, sha, branch) ==
    IF IsNone(branch) \/ ~HasBranch(rem, Unwrap(branch)) THEN Failed(rem)
    ELSE LET files == BranchOf(rem, Unwrap(branch)).files
         IN  IF ~HasFile(files, path) \/ sha # BlobSha(FileAt(files, path).contents)
             THEN Failed(rem)
             ELSE Ok(WithBranch(rem, Unwrap(branch), {f \in files : f.path # path}), None)

get_branch_sha(rem, branch) ==
    IF HasBranch(rem, branch) THEN Ok(rem, CommitSha(BranchOf(rem, branch).files))
    ELSE Failed(rem)

\* the tree of a set of files, in tree order
RECURSIVE TreePaths(_)
TreePaths(files) ==
    IF files = {} THEN <<>>
    ELSE LET f == CHOOSE x \in files : TRUE
         IN  <<f.path>> \o TreePaths(files \ {f})

list_github_files(rem, branch, prefix) ==
    IF ~HasBranch(rem, branch) THEN Failed(rem)
    ELSE Ok(rem, SelectSeq(TreePaths(BranchOf(rem, branch).files),
                           LAMBDA path : StartsWith(path, prefix)))

get_branch_protection(rem, pattern) ==
    IF rem.bp_forbidden \/ KeyIndex(rem.protection, "pattern", pattern) = 0 THEN Ok(rem, None)
    ELSE Ok(rem, Some(rem.protection[KeyIndex(rem.protection, "pattern", pattern)]))

\* 403 is swallowed (Ok, nothing stored); an unknown branch is an error
set_branch_protection(rem, rule) ==
    IF rem.bp_forbidden THEN Ok(rem, None)
    ELSE IF ~HasBranch(rem, rule.pattern) THEN Failed(rem)
    ELSE Ok([rem EXCEPT !.protection = MapInsert(@, "pattern", rule)], None)

\* 422 (the ref exists already) is swallowed
create_branch_from(rem, new_branch, base_sha) ==
    IF HasBranch(rem, new_branch) THEN Ok(rem, None)
    ELSE Ok(WithBranch(rem, new_branch, base_sha[2]), None)

NextPrNumber(rem) ==
    IF rem.prs = <<>> THEN 1
    ELSE 1 + (CHOOSE n \in {rem.prs[i].number : i \in 1..Len(rem.prs)} :
                 \A i \in 1..Len(rem.prs) : rem.prs[i].number =< n)

\* the draft flag left out of the request: GitHub opens a regular pull request
create_pull_request_not_draft(rem, title, head, base, body, draft) ==
    IF \/ ~HasBranch(rem, head) \/ ~HasBranch(rem, base)
       \/ \E i \in 1..Len(rem.prs) :
             rem.prs[i].state = "open" /\ rem.prs[i].head = head /\ rem.prs[i].base = base
    THEN Failed(rem)
    ELSE Ok([rem EXCEPT !.prs =
                <<[number |-> NextPrNumber(rem), state |-> "open", head |-> head,
                   base |-> base, title |-> Some(title), body |-> body, draft |-> FALSE]>>
                \o @], None)

create_pull_request(rem, title, head, base, body, draft) ==
    IF \/ ~HasBranch(rem, head) \/ ~HasBranch(rem, base)
       \/ \E i \in 1..Len(rem.prs) :
             rem.prs[i].state = "open" /\ rem.prs[i].head = head /\ rem.prs[i].base = base
    THEN Failed(rem)
    ELSE Ok([rem EXCEPT !.prs =
                <<[number |-> NextPrNumber(rem), state |-> "open", head |-> head,
                   base |-> base, title |-> Some(title), body |-> body, draft |-> draft]>>
                \o @], None)

update_pull_request(rem, number, title, body) ==
    LET at == KeyIndex(rem.prs, "number", number)
    IN  IF at = 0 THEN Failed(rem)
        ELSE Ok([rem EXCEPT !.prs[at].title = Some(title),
                            !.prs[at].body = IF IsSome(body) THEN body ELSE @], None)

\* the state of the pull request not looked at
find_pr_by_head_prefix_any_state(rem, head_prefix, base) ==
    LET listed == SelectSeq(rem.prs, LAMBDA p : p.base = base)
        found == SelectSeq(listed, LAMBDA p : StartsWith(p.head, head_prefix))
    IN  Ok(rem, IF found = <<>> THEN None ELSE Some(found[1]))

\* the open pull requests into `base`, and of those the first whose head ref
\* starts with the prefix
find_open_pr_by_head_prefix(rem, head_prefix, base) ==
    LET listed == SelectSeq(rem.prs, LAMBDA p : p.state = "open" /\ p.base = base)
        found == SelectSeq(listed, LAMBDA p : p.state = "open" /\ StartsWith(p.head, head_prefix))
    IN  Ok(rem, IF found = <<>> THEN None ELSE Some(found[1]))

\* one write call of the client, as a record [op, ...arguments]
GhWrite(rem, c) ==
    CASE c.op = "update_repo_settings" -> update_repo_settings(rem, c.settings)
      [] c.op = "set_branch_protection" -> set_branch_protection(rem, c.rule)
      [] c.op = "create_branch_from" -> create_branch_from(rem, c.branch, c.sha)
      [] c.op = "put_file" -> put_file(rem, c.path, c.contents, c.sha, Some(c.branch))
      [] c.op = "delete_file" -> delete_file(rem, c.path, c.sha, Some(c.branch))
      [] c.op = "create_label" -> create_label(rem, c.label)
      [] c.op = "update_label" -> update_label(rem, c.label)
      [] c.op = "delete_label" -> delete_label(rem, c.name)
      [] c.op = "create_pull_request" ->
            create_pull_request(rem, c.title, c.head, c.base, c.body, c.draft)
      [] c.op = "update_pull_request" -> update_pull_request(rem, c.number, c.title, c.body)

WriteOps ==
    {"update_repo_settings", "set_branch_protection", "create_branch_from", "put_file",
     "delete_file", "create_label", "update_label", "delete_label", "create_pull_request",
     "update_pull_request"}

\* ------------------------------------------------------------------------
\* Remote repositories the runs start from
\* ------------------------------------------------------------------------
GovMain == GovernanceBranch(MainBranch)

TStale ==
    [path |-> TemplateDir \o <<"stale", ".yml">>, contents |-> <<<<"body", <<"s1">>>>>>]

RemoteBase ==
    [exists |-> TRUE,
     default_branch |-> Some(MainBranch),
     settings |-> [allow_merge_commit |-> Some(TRUE), allow_squash_merge |-> Some(TRUE),
                   allow_rebase_merge |-> Some(TRUE), allow_auto_merge |-> Some(FALSE),
                   delete_branch_on_merge |-> Some(FALSE),
                   merge_commit_title |-> None, merge_commit_message |-> None,
                   squash_merge_commit_title |-> None, squash_merge_commit_message |-> None],
     bp_forbidden |-> FALSE,
     protection |-> <<>>,
     branches |-> {[name |-> MainBranch, files |-> {}]},
     labels |-> <<>>,
     issues |-> [n \in Range(NameOrder) |-> <<>>],
     prs |-> <<>>,
     unreadable |-> {}]

\* an untouched repository: foreign labels (one of them in use), a stale template
RemoteFresh ==
    [RemoteBase EXCEPT
       !.branches = {[name |-> MainBranch, files |-> {TStale}]},
       !.labels = <<[name |-> "bug", color |-> <<"00ff00">>, description |-> Some("bug")],
                    [name |-> "old", color |-> <<"aaaaaa">>, description |-> Some("old")],
                    [name |-> "wip", color |-> <<"bbbbbb">>, description |-> None]>>,
       !.issues = [n \in Range(NameOrder) |->
                     IF n = "old" THEN <<[number |-> 7, is_pr |-> FALSE]>> ELSE <<>>]]

\* a repository with an open governance pull request that was retitled by hand
RemoteStaged ==
    [RemoteBase EXCEPT
       !.branches = {[name |-> MainBranch, files |-> {TStale}],
                     [name |-> GovMain, files |-> {TStale, TBug}]},
       !.protection = <<[RuleMain EXCEPT !.enforce_admins = Some(FALSE),
                                         !.allow_deletions = Some(FALSE)]>>,
       !.labels = <<[name |-> "bug", color |-> <<"ff0000">>, description |-> Some("bug")]>>,
       !.prs = <<[number |-> 2, state |-> "open", head |-> GovMain, base |-> MainBranch,
                  title |-> Some(<<"edited by hand", 0>>), body |-> None, draft |-> TRUE],
                 [number |-> 1, state |-> "closed", head |-> GovMain, base |-> MainBranch,
                  title |-> Some(PrTitle(0)), body |-> Some(PR_BODY), draft |-> TRUE]>>]

\* a repository that already matches the set "base"
RemoteConverged ==
    [RemoteBase EXCEPT
       !.settings = [@ EXCEPT !.allow_merge_commit = Some(FALSE),
                              !.delete_branch_on_merge = Some(TRUE)],
       !.protection = <<RuleMain>>,
       !.branches = {[name |-> MainBranch,
                      files |-> {TBug, Unwrap(build_issue_template_config(<<TBug>>))}]},
       !.labels = <<[name |-> "bug", color |-> <<"ff0000">>, description |-> Some("bug")]>>]

\* branch protection unavailable (403), a governance branch left over from a
\* closed pull request, and an open pull request that is not a governance one
RemoteLocked ==
    [RemoteBase EXCEPT
       !.bp_forbidden = TRUE,
       !.branches = {[name |-> MainBranch, files |-> {}],
                     [name |-> GovMain, files |-> {TBugOther}],
                     [name |-> <<"feature">>, files |-> {}]},
       !.prs = <<[number |-> 2, state |-> "open", head |-> <<"feature">>, base |-> MainBranch,
                  title |-> Some(<<"a feature", 0>>), body |-> None, draft |-> FALSE],
                 [number |-> 1, state |-> "closed", head |-> GovMain, base |-> MainBranch,
                  title |-> Some(PrTitle(0)), body |-> Some(PR_BODY), draft |-> TRUE]>>]

\* an untouched repository on a plan without branch protection (403)
RemoteUnprotected == [RemoteFresh EXCEPT !.bp_forbidden = TRUE]

\* a repository whose bug template is served without base64 contents
RemoteLarge ==
    [RemoteBase EXCEPT
       !.branches = {[name |-> MainBranch, files |-> {TBugOther}]},
       !.unreadable = {TBugOther}]

\* the repository named in the configuration does not exist
RemoteMissing == [RemoteBase EXCEPT !.exists = FALSE]

Repos == {"r1", "r2"}

\* one configuration directory and the remote of its first repository
Scenario(r1_remote, default_sets, r1_sets, r2_sets) ==
    [remote |-> [r \in Repos |-> IF r = "r1" THEN r1_remote ELSE RemoteFresh],
     root |-> [default_sets |-> default_sets,
               repos |-> <<[name |-> "r1", sets |-> r1_sets],
                           [name |-> "r2", sets |-> r2_sets]>>]]

\* the configurations and remotes the runs start from: one repository with
\* sets, two repositories, sets that conflict, sets by default
Scenarios ==
    {Scenario(RemoteFresh, <<>>, sets, <<>>) :
        sets \in {<<"base">>, <<"base", "extra">>, <<"opts">>, <<"extra", "index">>}}
    \cup {Scenario(RemoteStaged, <<>>, sets, <<>>) :
        sets \in {<<"base">>, <<"base", "extra">>, <<"opts">>}}
    \cup {Scenario(RemoteConverged, <<>>, sets, <<>>) : sets \in {<<"base">>, <<>>}}
    \cup {Scenario(RemoteLocked, <<>>, sets, <<>>) : sets \in {<<"base">>, <<"opts">>}}
    \cup {Scenario(rem, <<>>, <<"base">>, <<>>) : rem \in {RemoteLarge, RemoteUnprotected}}
    \cup {Scenario(rem, <<>>, <<"base">>, <<"base">>) :
        rem \in {RemoteFresh, RemoteLocked, RemoteMissing}}
    \cup {Scenario(RemoteFresh, <<>>, sets, <<"base">>) :
        sets \in {<<"base", "clash">>, <<"base", "dup">>}}
    \cup {Scenario(RemoteFresh, <<>>, <<"base">>, <<"base", "fork">>),
          Scenario(RemoteFresh, <<"opts">>, <<"base">>, <<>>),
          Scenario(RemoteConverged, <<"opts">>, <<>>, <<>>)}

\* ------------------------------------------------------------------------
\* State
\* ------------------------------------------------------------------------
VARIABLES
    remote,     \* repository name -> remote repository
    root,       \* RootConfig: default_sets and repos, unchanged between runs
    run,        \* number of invocations started
    mode,       \* "Plan" or "Apply"
    verbose,    \* --verbose, the same in every run
    today,      \* the date Utc::now() gives
    pc,         \* position in run / handle_repos
    merged,     \* the Vec<(String, MergedRepoConfig)> prepare_merged returned
    idx,        \* position of handle_repos in merged
    loc,        \* the locals of the body of the loop of handle_repos
    result,     \* None while running, then Some(Ok or the error)
    calls,      \* client calls of this run that are logged, in order
    reports,    \* the per-repository summaries printed in this run
    prev,       \* mode and outcome of the previous run
    args,       \* a function of the program applied on its own: its arguments
    ret         \* and, once it has returned, Some(its result)

runVars == <<remote, root, run, mode, verbose, today, pc, merged, idx, loc, result, calls,
             reports, prev>>

vars == <<runVars, args, ret>>

\* no function is applied on its own while the tool runs
NoArgs == [fn |-> "run"]

EmptyDiff == [to_add |-> <<>>, to_update |-> <<>>, to_remove |-> <<>>]

LocInit ==
    [base_branch |-> <<>>, settings_diff |-> None, existing_pr |-> None,
     compare_branch |-> None, bp_changes |-> <<>>, desired_templates |-> <<>>,
     templates_add |-> <<>>, templates_update |-> <<>>, templates_remove |-> <<>>,
     diff |-> EmptyDiff, blocked_removals |-> <<>>, removable |-> <<>>,
     apply_pr |-> None, branch_name |-> None]

OkResult == [kind |-> "Ok", repo |-> ""]

ErrResult(kind, repo) == [kind |-> kind, repo |-> repo]

NoPrev == [mode |-> "", ok |-> FALSE, today |-> 0]

Init ==
    /\ \E sc \in Scenarios : remote = sc.remote /\ root = sc.root
    /\ run = 0
    /\ mode = "Plan"
    /\ verbose \in BOOLEAN
    /\ today = 1
    /\ pc = "idle"
    /\ merged = <<>>
    /\ idx = 0
    /\ loc = LocInit
    /\ result = None
    /\ calls = <<>>
    /\ reports = <<>>
    /\ prev = NoPrev
    /\ args = NoArgs
    /\ ret = None

\* ------------------------------------------------------------------------
\* run and handle_repos
\* ------------------------------------------------------------------------
Cur == merged[idx]

CurRemote == remote[Cur.name]

\* desired_settings of handle_repos
DesiredSettings == Cur.cfg.repo_settings

\* a read that is logged
ReadCall(repo, op, ok) == [repo |-> repo, ok |-> ok, call |-> [op |-> op]]

\* the write calls `ops` made one after the other, each followed by `?`: the
\* first call that fails ends the sequence.  Call number failAt (if any) fails
\* in transport; the others fail when GitHub refuses them.
RECURSIVE ExecOps(_, _, _, _)
ExecOps(rem, ops, failAt, repo) ==
    IF ops = <<>> THEN [remote |-> rem, log |-> <<>>, ok |-> TRUE]
    ELSE LET c == Head(ops)
             r == IF failAt = 1 THEN Failed(rem) ELSE GhWrite(rem, c)
             entry == [repo |-> repo, ok |-> r.ok, call |-> c]
         IN  IF ~r.ok THEN [remote |-> rem, log |-> <<entry>>, ok |-> FALSE]
             ELSE LET rest == ExecOps(r.remote, Tail(ops), failAt - 1, repo)
                  IN  [remote |-> rest.remote, log |-> <<entry>> \o rest.log, ok |-> rest.ok]

\* `?` on a failed client call: handle_repos returns the error
Abort(kind) ==
    /\ pc' = "done"
    /\ result' = Some(ErrResult(kind, Cur.name))
    /\ loc' = LocInit

\* the end of the body of `for (repo_name, merged_cfg) in merged`
NextRepo ==
    /\ loc' = LocInit
    /\ IF idx < Len(merged)
       THEN idx' = idx + 1 /\ pc' = "get_repo" /\ result' = result
       ELSE idx' = idx /\ pc' = "done" /\ result' = Some(OkResult)

\* main: the command line gives the mode; a later run is on the same day or
\* on the next
StartRun ==
    /\ pc \in {"idle", "done"}
    /\ run < MaxRuns
    /\ run' = run + 1
    /\ mode' \in {"Plan", "Apply"}
    /\ today' \in IF run = 0 THEN {today} ELSE {today, today + 1}
    /\ prev' = IF pc = "idle" THEN NoPrev
               ELSE [mode |-> mode, ok |-> result = Some(OkResult), today |-> today]
    /\ pc' = "prepare"
    /\ merged' = <<>>
    /\ idx' = 0
    /\ loc' = LocInit
    /\ result' = None
    /\ calls' = <<>>
    /\ reports' = <<>>
    /\ UNCHANGED <<remote, root, verbose>>
    /\ UNCHANGED <<args, ret>>

\* run: prepare_merged(..)? and then handle_repos
PrepareMerged ==
    /\ pc = "prepare"
    /\ \E r \in prepare_merged(root, <<>>) :
          IF r.ok
          THEN /\ merged' = r.merged
               /\ IF r.merged = <<>>
                  THEN idx' = 0 /\ pc' = "done" /\ result' = Some(OkResult)
                  ELSE idx' = 1 /\ pc' = "get_repo" /\ result' = None
          ELSE /\ merged' = <<>>
               /\ idx' = 0
               /\ pc' = "done"
               /\ result' = Some(r.err)
    /\ UNCHANGED <<remote, root, run, mode, verbose, today, loc, calls, reports, prev>>
    /\ UNCHANGED <<args, ret>>

\* lines 50-54
GetRepo ==
    /\ pc = "get_repo"
    /\ \E fail \in BOOLEAN :
          LET r == get_repo(CurRemote)
          IN  IF fail \/ ~r.ok
              THEN Abort(IF fail THEN "Octo" ELSE "RepoNotFound") /\ idx' = idx
              ELSE /\ loc' = [loc EXCEPT !.base_branch = UnwrapOr(r.value.default_branch, MainBranch)]
                   /\ pc' = "diff_settings"
                   /\ UNCHANGED <<result, idx>>
    /\ UNCHANGED <<remote, root, run, mode, verbose, today, merged, calls, reports, prev>>
    /\ UNCHANGED <<args, ret>>

\* lines 56-61
DiffSettings ==
    /\ pc = "diff_settings"
    /\ \E fail \in (IF IsSome(DesiredSettings) THEN BOOLEAN ELSE {FALSE}) :
          IF fail THEN Abort("Octo")
          ELSE /\ loc' = [loc EXCEPT !.settings_diff =
                            IF IsSome(DesiredSettings)
                            THEN Some(diff_repo_settings(Unwrap(DesiredSettings),
                                                         get_repo_settings(CurRemote).value))
                            ELSE None]
               /\ pc' = "find_pr"
               /\ UNCHANGED result
    /\ UNCHANGED <<remote, root, run, mode, verbose, today, merged, idx, calls, reports, prev>>
    /\ UNCHANGED <<args, ret>>

\* lines 63-66
FindExistingPr ==
    /\ pc = "find_pr"
    /\ \E fail \in BOOLEAN :
          IF fail
          THEN /\ Abort("Octo")
               /\ calls' = Append(calls, ReadCall(Cur.name, "find_open_pr_by_head_prefix", FALSE))
          ELSE LET pr == find_open_pr_by_head_prefix(CurRemote, PR_BRANCH_PREFIX,
                                                     loc.base_branch).value
               IN  /\ loc' = [loc EXCEPT !.existing_pr = pr,
                                         !.compare_branch =
                                            IF IsSome(pr) THEN Some(Unwrap(pr).head) ELSE None]
                   /\ calls' = Append(calls,
                                      ReadCall(Cur.name, "find_open_pr_by_head_prefix", TRUE))
                   /\ pc' = "diff_bp"
                   /\ UNCHANGED result
    /\ UNCHANGED <<remote, root, run, mode, verbose, today, merged, idx, reports, prev>>
    /\ UNCHANGED <<args, ret>>

\* the rules of desired_settings.and_then(|s| s.branch_protection.as_ref())
DesiredRules ==
    IF IsSome(DesiredSettings) /\ IsSome(Unwrap(DesiredSettings).branch_protection)
    THEN Unwrap(Unwrap(DesiredSettings).branch_protection).rules
    ELSE <<>>

\* the current rule compared with the desired rule, not with the merge of both
RuleChangeDesiredOnly(rem, rule) ==
    LET current == get_branch_protection(rem, rule.pattern).value
        target == merge_branch_rule(rule, current)
    IN  IF current # Some(rule)
        THEN <<[pattern |-> rule.pattern,
                action |-> IF IsSome(current) THEN "Update" ELSE "Create",
                target |-> target]>>
        ELSE <<>>

\* lines 70-84, for one rule
RuleChange(rem, rule) ==
    LET current == get_branch_protection(rem, rule.pattern).value
        target == merge_branch_rule(rule, current)
    IN  IF current # Some(target)
        THEN <<[pattern |-> rule.pattern,
                action |-> IF IsSome(current) THEN "Update" ELSE "Create",
                target |-> target]>>
        ELSE <<>>

RECURSIVE RuleChanges(_, _)
RuleChanges(rem, rules) ==
    IF rules = <<>> THEN <<>>
    ELSE RuleChange(rem, Head(rules)) \o RuleChanges(rem, Tail(rules))

\* lines 68-85
DiffBranchProtection ==
    /\ pc = "diff_bp"
    /\ \E fail \in (IF DesiredRules # <<>> THEN BOOLEAN ELSE {FALSE}) :
          IF fail THEN Abort("Octo")
          ELSE /\ loc' = [loc EXCEPT !.bp_changes = RuleChanges(CurRemote, DesiredRules)]
               /\ pc' = "stage_files"
               /\ UNCHANGED result
    /\ UNCHANGED <<remote, root, run, mode, verbose, today, merged, idx, calls, reports, prev>>
    /\ UNCHANGED <<args, ret>>

\* lines 101-112: the desired files that are missing on the comparison branch
TemplatesAdd(rem, desired, compare_branch) ==
    SelectSeq(desired, LAMBDA tpl : IsNone(get_file(rem, tpl.path, compare_branch).value))

\* lines 101-112: the desired files that differ, each with the remote blob SHA
TemplatesUpdate(rem, desired, compare_branch) ==
    LET differ == SelectSeq(desired, LAMBDA tpl :
                      /\ IsSome(get_file(rem, tpl.path, compare_branch).value)
                      /\ Unwrap(get_file(rem, tpl.path, compare_branch).value).content
                            # tpl.contents)
    IN  [i \in 1..Len(differ) |->
            [tpl |-> differ[i],
             sha |-> Unwrap(get_file(rem, differ[i].path, compare_branch).value).sha]]

\* lines 113-132: only when there is a comparison branch
TemplatesRemove(rem, desired, compare_branch) ==
    IF IsNone(compare_branch) THEN <<>>
    ELSE LET listing == list_github_files(rem, Unwrap(compare_branch), <<GithubDir>>)
             current_paths == IF listing.ok THEN listing.value ELSE <<>>
             extra == SelectSeq(current_paths, LAMBDA path :
                         /\ StartsWith(path, TemplateDir)
                         /\ ~\E i \in 1..Len(desired) : short_github_path(desired[i].path) = path
                         /\ IsSome(get_file(rem, path, compare_branch).value))
         IN  [i \in 1..Len(extra) |->
                 [path |-> extra[i],
                  sha |-> Unwrap(get_file(rem, extra[i], compare_branch).value).sha]]

\* lines 87-135
StageFiles ==
    /\ pc = "stage_files"
    /\ LET desired == DesiredTemplates(Cur.cfg.issue_templates)
       IN  \E fail \in (IF desired # <<>> \/ IsSome(loc.compare_branch)
                        THEN BOOLEAN ELSE {FALSE}) :
              IF fail THEN Abort("Octo")
              ELSE /\ loc' = [loc EXCEPT
                                !.desired_templates = desired,
                                !.templates_add =
                                    TemplatesAdd(CurRemote, desired, loc.compare_branch),
                                !.templates_update =
                                    TemplatesUpdate(CurRemote, desired, loc.compare_branch),
                                !.templates_remove =
                                    TemplatesRemove(CurRemote, desired, loc.compare_branch)]
                   /\ pc' = "diff_labels"
                   /\ UNCHANGED result
    /\ UNCHANGED <<remote, root, run, mode, verbose, today, merged, idx, calls, reports, prev>>
    /\ UNCHANGED <<args, ret>>

\* lines 137-138
DiffLabels ==
    /\ pc = "diff_labels"
    /\ \E fail \in BOOLEAN :
          IF fail THEN Abort("Octo")
          ELSE /\ loc' = [loc EXCEPT !.diff =
                            diff_labels(Cur.cfg.labels, list_repo_labels(CurRemote).value)]
               /\ pc' = "gate"
               /\ UNCHANGED result
    /\ UNCHANGED <<remote, root, run, mode, verbose, today, merged, idx, calls, reports, prev>>
    /\ UNCHANGED <<args, ret>>

\* the gate left out: every label to remove is taken as removable
RemovableUngated(rem, to_remove, include_details) == to_remove

\* lines 143-148: the labels to remove that no issue or pull request carries
Removable(rem, to_remove, include_details) ==
    SelectSeq(to_remove, LAMBDA l : IsNone(label_usage(rem, l.name, include_details).value))

\* lines 143-148: the labels to remove that are in use, with the usage found
BlockedRemovals(rem, to_remove, include_details) ==
    LET blocked == SelectSeq(to_remove, LAMBDA l :
                       IsSome(label_usage(rem, l.name, include_details).value))
    IN  [i \in 1..Len(blocked) |->
            [label |-> blocked[i],
             usage |-> Unwrap(label_usage(rem, blocked[i].name, include_details).value)]]

\* the apply arm taken whatever the mode
AfterGateAlwaysApply(m) == "apply_settings"

\* line 150: match mode
AfterGate(m) == IF m = "Plan" THEN "report" ELSE "apply_settings"

\* lines 140-148
GateRemovals ==
    /\ pc = "gate"
    /\ \E fail \in (IF loc.diff.to_remove # <<>> THEN BOOLEAN ELSE {FALSE}) :
          IF fail THEN Abort("Octo")
          ELSE /\ loc' = [loc EXCEPT
                            !.blocked_removals =
                                BlockedRemovals(CurRemote, loc.diff.to_remove, verbose),
                            !.removable = Removable(CurRemote, loc.diff.to_remove, verbose)]
               /\ pc' = AfterGate(mode)
               /\ UNCHANGED result
    /\ UNCHANGED <<remote, root, run, mode, verbose, today, merged, idx, calls, reports, prev>>
    /\ UNCHANGED <<args, ret>>

\* format_branch_protection: one line per change, its pattern and its action
BpLines(changes) ==
    [i \in 1..Len(changes) |-> [pattern |-> changes[i].pattern, action |-> changes[i].action]]

\* lines 151-215: Mode::Plan prints the summary
PlanReport ==
    /\ pc = "report"
    /\ reports' = Append(reports,
                         [repo |-> Cur.name, mode |-> "Plan",
                          branch_protection |-> BpLines(loc.bp_changes),
                          pr |-> IF IsSome(loc.existing_pr)
                                 THEN Some(Unwrap(loc.existing_pr).number) ELSE None])
    /\ NextRepo
    /\ UNCHANGED <<remote, root, run, mode, verbose, today, merged, calls, prev>>
    /\ UNCHANGED <<args, ret>>

\* the labels reconciled before the branch is filled
ApplyOrderLabelsFirst ==
    <<"apply_settings", "apply_bp", "apply_branch", "apply_labels", "apply_files", "apply_pr">>

\* lines 216-341: the steps of Mode::Apply, in the order of the code
ApplyOrder ==
    <<"apply_settings", "apply_bp", "apply_branch", "apply_files", "apply_labels", "apply_pr">>

NextPhase(p) == ApplyOrder[1 + CHOOSE i \in 1..(Len(ApplyOrder) - 1) : ApplyOrder[i] = p]

\* a write phase of Mode::Apply: the calls `ops`, then on to the next step
WritePhase(ops, this) ==
    \E failAt \in 0..Len(ops) :
        LET x == ExecOps(CurRemote, ops, failAt, Cur.name)
        IN  /\ remote' = [remote EXCEPT ![Cur.name] = x.remote]
            /\ calls' = calls \o x.log
            /\ IF x.ok
               THEN pc' = NextPhase(this) /\ UNCHANGED <<result, loc>>
               ELSE Abort("Octo")

\* lines 217-221
ApplySettings ==
    /\ pc = "apply_settings"
    /\ WritePhase(IF /\ IsSome(loc.settings_diff) /\ IsSome(DesiredSettings)
                     /\ Unwrap(loc.settings_diff).changes # <<>>
                  THEN <<[op |-> "update_repo_settings", settings |-> Unwrap(DesiredSettings)]>>
                  ELSE <<>>,
                  "apply_settings")
    /\ UNCHANGED <<root, run, mode, verbose, today, merged, idx, reports, prev>>
    /\ UNCHANGED <<args, ret>>

\* lines 223-225
ApplyBranchProtection ==
    /\ pc = "apply_bp"
    /\ WritePhase([i \in 1..Len(loc.bp_changes) |->
                      [op |-> "set_branch_protection", rule |-> loc.bp_changes[i].target]],
                  "apply_bp")
    /\ UNCHANGED <<root, run, mode, verbose, today, merged, idx, reports, prev>>
    /\ UNCHANGED <<args, ret>>

\* line 227: the apply arm shadows any_file_changes, leaving removals out
AnyFileChanges == loc.templates_add # <<>> \/ loc.templates_update # <<>>

\* lines 227-243
ApplyBranch ==
    /\ pc = "apply_branch"
    /\ LET look == AnyFileChanges \/ IsSome(loc.existing_pr)
           found == IF look
                    THEN find_open_pr_by_head_prefix(CurRemote, PR_BRANCH_PREFIX,
                                                     loc.base_branch).value
                    ELSE None
           name == GovernanceBranch(loc.base_branch)
           base_sha == get_branch_sha(CurRemote, loc.base_branch)
           create == IsNone(found) /\ AnyFileChanges
           readLog(ok) == IF look
                          THEN <<ReadCall(Cur.name, "find_open_pr_by_head_prefix", ok)>>
                          ELSE <<>>
       IN  \/ /\ look
              /\ Abort("Octo")
              /\ calls' = calls \o readLog(FALSE)
              /\ UNCHANGED remote
           \/ /\ create
              /\ Abort(IF base_sha.ok THEN "Octo" ELSE "RepoNotFound")
              /\ calls' = calls \o readLog(TRUE)
              /\ UNCHANGED remote
           \/ /\ create
              /\ base_sha.ok
              /\ \E failAt \in 0..1 :
                    LET x == ExecOps(CurRemote,
                                     <<[op |-> "create_branch_from", branch |-> name,
                                        sha |-> base_sha.value]>>,
                                     failAt, Cur.name)
                    IN  /\ remote' = [remote EXCEPT ![Cur.name] = x.remote]
                        /\ calls' = calls \o readLog(TRUE) \o x.log
                        /\ IF x.ok
                           THEN /\ loc' = [loc EXCEPT !.apply_pr = None,
                                                      !.branch_name = Some(name)]
                                /\ pc' = NextPhase("apply_branch")
                                /\ UNCHANGED result
                           ELSE Abort("Octo")
           \/ /\ ~create
              /\ loc' = [loc EXCEPT !.apply_pr = found,
                                    !.branch_name =
                                       IF IsSome(found) THEN Some(Unwrap(found).head) ELSE None]
              /\ calls' = calls \o readLog(TRUE)
              /\ pc' = NextPhase("apply_branch")
              /\ UNCHANGED <<remote, result>>
    /\ UNCHANGED <<root, run, mode, verbose, today, merged, idx, reports, prev>>
    /\ UNCHANGED <<args, ret>>

\* lines 245-275
FileOps ==
    IF IsNone(loc.branch_name) THEN <<>>
    ELSE [i \in 1..Len(loc.templates_add) |->
             [op |-> "put_file", path |-> loc.templates_add[i].path,
              contents |-> loc.templates_add[i].contents, sha |-> None,
              branch |-> Unwrap(loc.branch_name)]]
         \o [i \in 1..Len(loc.templates_update) |->
             [op |-> "put_file", path |-> loc.templates_update[i].tpl.path,
              contents |-> loc.templates_update[i].tpl.contents,
              sha |-> Some(loc.templates_update[i].sha),
              branch |-> Unwrap(loc.branch_name)]]
         \o [i \in 1..Len(loc.templates_remove) |->
             [op |-> "delete_file", path |-> loc.templates_remove[i].path,
              sha |-> loc.templates_remove[i].sha,
              branch |-> Unwrap(loc.branch_name)]]

ApplyFiles ==
    /\ pc = "apply_files"
    /\ WritePhase(FileOps, "apply_files")
    /\ UNCHANGED <<root, run, mode, verbose, today, merged, idx, reports, prev>>
    /\ UNCHANGED <<args, ret>>

\* lines 277-285
LabelOps ==
    [i \in 1..Len(loc.diff.to_add) |-> [op |-> "create_label", label |-> loc.diff.to_add[i]]]
    \o [i \in 1..Len(loc.diff.to_update) |->
            [op |-> "update_label", label |-> loc.diff.to_update[i]]]
    \o [i \in 1..Len(loc.removable) |-> [op |-> "delete_label", name |-> loc.removable[i].name]]

ApplyLabels ==
    /\ pc = "apply_labels"
    /\ WritePhase(LabelOps, "apply_labels")
    /\ UNCHANGED <<root, run, mode, verbose, today, merged, idx, reports, prev>>
    /\ UNCHANGED <<args, ret>>

\* the title and body refreshed without comparing them
PrOpsAlwaysRefresh ==
    IF IsNone(loc.branch_name) THEN <<>>
    ELSE IF IsSome(loc.apply_pr)
    THEN <<[op |-> "update_pull_request", number |-> Unwrap(loc.apply_pr).number,
            title |-> PrTitle(today), body |-> Some(PR_BODY)]>>
    ELSE IF AnyFileChanges
    THEN <<[op |-> "create_pull_request", title |-> PrTitle(today),
            head |-> Unwrap(loc.branch_name), base |-> loc.base_branch,
            body |-> Some(PR_BODY), draft |-> TRUE]>>
    ELSE <<>>

\* lines 294-319: the pull-request calls
PrOps ==
    IF IsNone(loc.branch_name) THEN <<>>
    ELSE IF IsSome(loc.apply_pr)
    THEN IF \/ Unwrap(loc.apply_pr).title # Some(PrTitle(today))
            \/ Unwrap(loc.apply_pr).body # Some(PR_BODY)
         THEN <<[op |-> "update_pull_request", number |-> Unwrap(loc.apply_pr).number,
                 title |-> PrTitle(today), body |-> Some(PR_BODY)]>>
         ELSE <<>>
    ELSE IF AnyFileChanges
    THEN <<[op |-> "create_pull_request", title |-> PrTitle(today),
            head |-> Unwrap(loc.branch_name), base |-> loc.base_branch,
            body |-> Some(PR_BODY), draft |-> TRUE]>>
    ELSE <<>>

\* lines 294-375: the pull request, the re-check after a creation, the summary
ApplyPr ==
    /\ pc = "apply_pr"
    /\ LET created == IsSome(loc.branch_name) /\ IsNone(loc.apply_pr) /\ AnyFileChanges
       IN  \E failAt \in 0..Len(PrOps), failFind \in (IF created THEN BOOLEAN ELSE {FALSE}) :
              LET x == ExecOps(CurRemote, PrOps, failAt, Cur.name)
                  pr_opt == IF created
                            THEN find_open_pr_by_head_prefix(x.remote, PR_BRANCH_PREFIX,
                                                             loc.base_branch).value
                            ELSE loc.apply_pr
                  recheck == IF created /\ x.ok
                             THEN <<ReadCall(Cur.name, "find_open_pr_by_head_prefix", ~failFind)>>
                             ELSE <<>>
              IN  /\ remote' = [remote EXCEPT ![Cur.name] = x.remote]
                  /\ calls' = calls \o x.log \o recheck
                  /\ IF x.ok /\ ~failFind
                     THEN /\ reports' = Append(reports,
                                [repo |-> Cur.name, mode |-> "Apply",
                                 branch_protection |-> BpLines(loc.bp_changes),
                                 pr |-> IF IsSome(loc.branch_name) /\ IsSome(pr_opt)
                                        THEN Some(Unwrap(pr_opt).number) ELSE None])
                          /\ NextRepo
                     ELSE /\ Abort("Octo")
                          /\ idx' = idx
                          /\ UNCHANGED reports
    /\ UNCHANGED <<root, run, mode, verbose, today, merged, prev>>
    /\ UNCHANGED <<args, ret>>

Next ==
    \/ StartRun
    \/ PrepareMerged
    \/ GetRepo
    \/ DiffSettings
    \/ FindExistingPr
    \/ DiffBranchProtection
    \/ StageFiles
    \/ DiffLabels
    \/ GateRemovals
    \/ PlanReport
    \/ ApplySettings
    \/ ApplyBranchProtection
    \/ ApplyBranch
    \/ ApplyFiles
    \/ ApplyLabels
    \/ ApplyPr

Spec == Init /\ [][Next]_vars

\* ------------------------------------------------------------------------
\* Properties
\* ------------------------------------------------------------------------
LabelNames(labels) == {labels[i].name : i \in 1..Len(labels)}

BlockedNames(blocked) == {blocked[i].label.name : i \in 1..Len(blocked)}

\* the positions in calls' of the calls made by the step
NewCalls == (Len(calls) + 1)..Len(calls')

\* the calls of this run made for one repository, in order
CallsOf(repo) == SelectSeq(calls, LAMBDA c : c.repo = repo)

\* the positions at which handle_repos holds the gated label lists
AfterGatePcs == {"report"} \cup Range(ApplyOrder)

\* C1: a delete_label call is made only in apply mode, only for a label of
\* diff.to_remove that no issue or pull request carries, and never for a
\* label of blocked_removals; removable and blocked_removals are disjoint
\* and together are exactly diff.to_remove, a label being blocked exactly
\* when it is in use.
C1_DeleteOnlyUnusedLabels ==
    /\ [](pc \in AfterGatePcs =>
            /\ LabelNames(loc.removable) \cap BlockedNames(loc.blocked_removals) = {}
            /\ LabelNames(loc.removable) \cup BlockedNames(loc.blocked_removals)
                  = LabelNames(loc.diff.to_remove)
            /\ Len(loc.removable) + Len(loc.blocked_removals) = Len(loc.diff.to_remove)
            /\ \A n \in LabelNames(loc.diff.to_remove) :
                  n \in BlockedNames(loc.blocked_removals) <=> CurRemote.issues[n] # <<>>)
    /\ [][\A i \in NewCalls :
            calls'[i].call.op = "delete_label" =>
                /\ mode = "Apply"
                /\ calls'[i].call.name \in LabelNames(loc.diff.to_remove)
                /\ calls'[i].call.name \notin BlockedNames(loc.blocked_removals)
                /\ remote[calls'[i].repo].issues[calls'[i].call.name] = <<>>]_vars

\* an apply run that deleted one label and kept another because it is in use
C1_Witness ==
    /\ pc = "apply_pr"
    /\ loc.blocked_removals # <<>>
    /\ \E i \in 1..Len(calls) :
          /\ calls[i].call.op = "delete_label" /\ calls[i].ok
          /\ calls[i].call.name \in LabelNames(loc.removable)

\* C2: a plan run makes no write call, and no step of it changes a remote
\* repository.
C2_PlanIsReadOnly ==
    /\ [](mode = "Plan" => \A i \in 1..Len(calls) : calls[i].call.op \notin WriteOps)
    /\ [][(mode' = "Plan" /\ run' = run) => remote' = remote]_vars

\* a plan run that reports labels, files and settings to change
C2_Witness ==
    /\ mode = "Plan"
    /\ pc = "report"
    /\ loc.diff.to_add # <<>>
    /\ loc.diff.to_remove # <<>>
    /\ loc.templates_add # <<>>
    /\ IsSome(loc.settings_diff) /\ Unwrap(loc.settings_diff).changes # <<>>
    /\ loc.bp_changes # <<>>

\* the write calls of this run made for one repository, in order
WritesOf(repo) == SelectSeq(CallsOf(repo), LAMBDA c : c.call.op \in WriteOps)

OpsOf(log) == {log[i].call.op : i \in 1..Len(log)}

CountOp(log, op) == Len(SelectSeq(log, LAMBDA c : c.call.op = op))

FileWriteOps == {"put_file", "delete_file"}

LabelWriteOps == {"create_label", "update_label", "delete_label"}

PrWriteOps == {"update_pull_request", "create_pull_request"}

\* the repositories handle_repos has finished in this run
Reported == {reports[i].repo : i \in 1..Len(reports)}

\* this run follows a successful apply run and is an apply run itself
SecondApply == prev.mode = "Apply" /\ prev.ok /\ mode = "Apply"

\* C3: an apply run that follows a successful apply run, with the same desired
\* configuration and no remote change but the writes of the first run, makes
\* no write call.
C3_SecondApplyWritesNothing ==
    SecondApply => \A i \in 1..Len(calls) : calls[i].call.op \notin WriteOps

\* the files of the default branch of a remote repository
DefaultBranchFiles(rem) ==
    IF IsSome(rem.default_branch) /\ HasBranch(rem, Unwrap(rem.default_branch))
    THEN BranchOf(rem, Unwrap(rem.default_branch)).files
    ELSE {}

\* C4: every put_file and delete_file call names a branch that starts with
\* PR_BRANCH_PREFIX and is the head of the open pull request found or
\* PR_BRANCH_PREFIX followed by the base branch; it is never the default
\* branch, and no step changes a file of a default branch.
C4_FilesGoToGovernanceBranch ==
    /\ [](\A i \in 1..Len(calls) :
            calls[i].call.op \in FileWriteOps =>
                /\ StartsWith(calls[i].call.branch, PR_BRANCH_PREFIX)
                /\ Some(calls[i].call.branch) # remote[calls[i].repo].default_branch)
    /\ [][/\ \A i \in NewCalls :
                calls'[i].call.op \in FileWriteOps =>
                    calls'[i].call.branch \in
                        {PR_BRANCH_PREFIX \o loc.base_branch}
                        \cup {loc.existing_pr[k].head : k \in 1..Len(loc.existing_pr)}
          /\ \A r \in Repos : DefaultBranchFiles(remote'[r]) = DefaultBranchFiles(remote[r])]_vars

\* an apply run that added a file to a governance branch and deleted one from it
C4_Witness ==
    /\ mode = "Apply"
    /\ \E i \in 1..Len(calls) : calls[i].call.op = "put_file" /\ calls[i].ok
    /\ \E i \in 1..Len(calls) : calls[i].call.op = "delete_file" /\ calls[i].ok

\* the place of a write call in the order of apply
Phase(op) ==
    CASE op = "update_repo_settings" -> 1
      [] op = "set_branch_protection" -> 2
      [] op = "create_branch_from" -> 3
      [] op \in FileWriteOps -> 4
      [] op \in LabelWriteOps -> 5
      [] op \in PrWriteOps -> 6

ReuseWithoutFileChanges ==
    /\ mode = "Apply"
    /\ pc \in {"apply_branch", "apply_files", "apply_pr"}
    /\ IsSome(loc.existing_pr)
    /\ loc.templates_add = <<>> /\ loc.templates_update = <<>> /\ loc.templates_remove = <<>>

\* C6: with an open governance pull request and no file to add, update or
\* remove, apply calls neither put_file, delete_file, create_branch_from nor
\* create_pull_request, and it calls update_pull_request exactly when the
\* title or the body of that pull request differs from the desired ones.
C6_ReuseWithoutFileChanges ==
    [][ReuseWithoutFileChanges =>
        /\ \A i \in NewCalls :
              calls'[i].call.op \notin
                  {"put_file", "delete_file", "create_branch_from", "create_pull_request"}
        /\ pc = "apply_pr" =>
              ((\E i \in NewCalls : calls'[i].call.op = "update_pull_request")
               <=> (\/ Unwrap(loc.existing_pr).title # Some(PrTitle(today))
                    \/ Unwrap(loc.existing_pr).body # Some(PR_BODY)))]_vars

\* a finished repository whose pull request was refreshed with no file staged
C6_Witness ==
    \E r \in Reported :
        /\ mode = "Apply"
        /\ \E i \in 1..Len(calls) :
              calls[i].repo = r /\ calls[i].call.op = "update_pull_request" /\ calls[i].ok
        /\ OpsOf(CallsOf(r)) \cap (FileWriteOps \cup {"create_branch_from"}) = {}

\* no governance pull request is found and a file is to be added or updated
NewBranchNeeded ==
    /\ mode = "Apply"
    /\ IsNone(loc.existing_pr)
    /\ loc.templates_add # <<>> \/ loc.templates_update # <<>>

IsGovernancePr(p, base) ==
    p.state = "open" /\ StartsWith(p.head, PR_BRANCH_PREFIX) /\ p.base = base

\* C8: the pull request branch discovery returns is open, its head starts
\* with PR_BRANCH_PREFIX and its base is the default branch; its head is the
\* branch the desired files are compared against and the branch every file
\* call names, and no branch is created then.  create_branch_from is called
\* only when a file is to be added or updated and the repository has no
\* such pull request.
C8_BranchDiscovery ==
    /\ [](\A p \in Range(loc.existing_pr) \cup Range(loc.apply_pr) :
            /\ IsGovernancePr(p, loc.base_branch)
            /\ Some(p.base) = CurRemote.default_branch
            /\ loc.compare_branch = Some(Unwrap(loc.existing_pr).head))
    /\ [][/\ (pc = "stage_files" /\ pc' = "diff_labels" /\ IsSome(loc.existing_pr)) =>
                LET files == BranchOf(CurRemote, Unwrap(loc.existing_pr).head).files
                    desired == Range(loc'.desired_templates)
                IN  /\ Range(loc'.templates_add)
                          = {t \in desired : ~HasFile(files, t.path)}
                    /\ {loc'.templates_update[k].tpl : k \in 1..Len(loc'.templates_update)}
                          = {t \in desired : /\ HasFile(files, t.path)
                                             /\ FileAt(files, t.path).contents # t.contents}
          /\ \A i \in NewCalls :
                /\ (calls'[i].call.op \in FileWriteOps /\ IsSome(loc.existing_pr))
                      => calls'[i].call.branch = Unwrap(loc.existing_pr).head
                /\ calls'[i].call.op = "create_branch_from" =>
                      /\ IsNone(loc.existing_pr)
                      /\ loc.templates_add # <<>> \/ loc.templates_update # <<>>
                      /\ ~\E k \in 1..Len(CurRemote.prs) :
                            IsGovernancePr(CurRemote.prs[k], loc.base_branch)]_vars

\* files written to the head branch of the pull request that was found
C8_Witness ==
    /\ pc = "apply_labels"
    /\ IsSome(loc.existing_pr)
    /\ \E i \in 1..Len(calls) :
          /\ calls[i].repo = Cur.name /\ calls[i].ok
          /\ calls[i].call.op = "put_file"
          /\ calls[i].call.branch = Unwrap(loc.existing_pr).head

\* the repositories of the configuration that resolve when taken alone
Resolvable ==
    {root.repos[k].name : k \in 1..Len(root.repos)} \cap
    {n \in Repos : \A m \in prepare_merged(root, <<n>>) : m.ok /\ m.merged # <<>>}

\* C9: when the run ends with a configuration conflict of one repository,
\* every other repository that resolves is resolved and handled in that run.
C9_ConflictAbortsOneRepository ==
    (pc = "done" /\ IsSome(result) /\ Unwrap(result).kind = "MergeConflict") =>
        \A n \in Resolvable \ {Unwrap(result).repo} :
            /\ \E k \in 1..Len(merged) : merged[k].name = n
            /\ n \in Reported \/ \E i \in 1..Len(calls) : calls[i].repo = n

\* C10: when a client call fails for one repository, every other repository
\* of the batch is handled in that run.
C10_RemoteErrorAbortsOneRepository ==
    (pc = "done" /\ IsSome(result) /\ Unwrap(result).kind \in {"Octo", "RepoNotFound"}) =>
        \A k \in 1..Len(merged) :
            merged[k].name # Unwrap(result).repo =>
                merged[k].name \in Reported \/ \E i \in 1..Len(calls) : calls[i].repo = merged[k].name


\* ------------------------------------------------------------------------
\* The functions applied on their own
\* ------------------------------------------------------------------------
\* the longest list of sets handed to a function
MaxSets == 3

LBugNorm == [name |-> "bug", color |-> Some(<<"ff0000">>), description |-> Some("bug")]

LBugDesc == [name |-> "bug", color |-> Some(<<"#", "FF0000">>), description |-> Some("defect")]

LFeatBlue == [name |-> "feat", color |-> Some(<<"0000ff">>), description |-> None]

RuleRelaxed == [NoRule(MainBranch) EXCEPT !.enforce_admins = Some(FALSE)]

\* the set definitions handed to the functions: the sets on disk, and sets
\* built in memory as the unit tests build them
SampleSets ==
    [base  |-> SetLibrary["base"],
     extra |-> SetLibrary["extra"],
     opts  |-> SetLibrary["opts"],
     clash |-> SetLibrary["clash"],
     dup   |-> SetLibrary["dup"],
     fork  |-> SetLibrary["fork"],
     norm  |-> [EmptySet("norm") EXCEPT !.labels = <<LBugNorm>>],
     desc  |-> [EmptySet("desc") EXCEPT !.labels = <<LBugDesc>>],
     same  |-> [EmptySet("same") EXCEPT !.repo_settings = Some(SettingsBools),
                                        !.branch_protection = Some([rules |-> <<RuleMain>>]),
                                        !.checks = Some([require_codeowners |-> TRUE,
                                                         warn_on_inactive_owners |-> TRUE])],
     bp2   |-> [EmptySet("bp2") EXCEPT !.labels = <<LFeatBlue>>,
                                      !.branch_protection = Some([rules |-> <<RuleRelaxed>>])],
     chk2  |-> [EmptySet("chk2") EXCEPT !.checks = Some([require_codeowners |-> FALSE,
                                                         warn_on_inactive_owners |-> TRUE])],
     deep  |-> [EmptySet("deep") EXCEPT
                  !.issue_templates = <<[TBug EXCEPT !.path = <<"sets/", "core/">> \o @]>>]]

\* the lists of at most n set names
SetLists(n) == UNION {[1..k -> DOMAIN SampleSets] : k \in 1..n}

SetsOf(names) == [i \in 1..Len(names) |-> SampleSets[names[i]]]

\* the same sets in every order
Orders(names) == {[i \in 1..Len(names) |-> names[p[i]]] : p \in Perms(1..Len(names))}

\* the longest list of labels handed to diff_labels
MaxLabels == 2

\* the desired labels, and the labels a repository holds
DesiredLabelPool ==
    {LBug, LBugGreen, LBugDesc, LFeat,
     [name |-> "wip", color |-> Some(<<"aaaaaa">>), description |-> None]}

CurrentLabelPool ==
    {[name |-> "bug", color |-> <<"ff0000">>, description |-> Some("bug")],
     [name |-> "bug", color |-> <<"00ff00">>, description |-> Some("bug")],
     [name |-> "feat", color |-> <<"ededed">>, description |-> None],
     [name |-> "old", color |-> <<"#", "00FF00">>, description |-> Some("old")]}

\* the lists of at most n labels of the pool with different names
LabelLists(pool, n) ==
    {<<>>} \cup UNION {{s \in [1..k -> pool] :
                          \A i, j \in 1..k : i # j => s[i].name # s[j].name} : k \in 1..n}

OptBool == {None, Some(TRUE), Some(FALSE)}

MergeOptions == {"DefaultMessage", "PullRequestTitle", "PullRequestTitleAndDescription"}

SquashOptions ==
    {"DefaultMessage", "PullRequestTitle", "PullRequestTitleAndCommitDetails",
     "PullRequestTitleAndDescription"}

\* desired pull-request settings: every choice of the five booleans, and
\* every choice of the two options
BoolSettings ==
    {[f \in DOMAIN NoPullRequests |-> IF f \in Range(BoolFields) THEN b[f] ELSE None] :
        b \in [Range(BoolFields) -> OptBool]}

OptionSettings ==
    {[pr EXCEPT !.merge_commit_message_option = m, !.squash_merge_option = sq] :
        pr \in {NoPullRequests, Unwrap(SettingsBools.pull_requests)},
        m \in {None} \cup {Some(o) : o \in MergeOptions},
        sq \in {None} \cup {Some(o) : o \in SquashOptions}}

DesiredSettingsPool ==
    {[pull_requests |-> None, branch_protection |-> None]}
    \cup {[pull_requests |-> Some(pr), branch_protection |-> None] :
             pr \in BoolSettings \cup OptionSettings}

\* observed settings: no pull-request part, or the merge methods with one
\* value, the two other booleans with another, and the options unset or set
ObservedSettingsPool ==
    {[pull_requests |-> None, branch_protection |-> None]}
    \cup {[pull_requests |->
               Some([allow_merge_commit |-> a, allow_squash_merge |-> a,
                     allow_rebase_merge |-> a, allow_auto_merge |-> b,
                     delete_branch_on_merge |-> b,
                     merge_commit_message_option |-> o, squash_merge_option |-> o]),
             branch_protection |-> None] :
             a \in OptBool, b \in OptBool, o \in {None, Some("PullRequestTitle")}}

\* the lists of at most n names of sets on disk
LoadLists(n) == {<<>>} \cup UNION {[1..k -> DOMAIN SetLibrary] : k \in 1..n}

\* a root configuration with one repository
RootOf(default_sets, names) ==
    [default_sets |-> default_sets, repos |-> <<[name |-> "r1", sets |-> names]>>]

\* a value for every optional field of a rule, one choice per boolean v
RuleValues(v) ==
    [required_status_checks |->
        Some([strict |-> Some(v), contexts |-> Some(<<"ci">>), checks |-> None]),
     required_pull_request_reviews |->
        Some([dismiss_stale_reviews |-> Some(v), require_code_owner_reviews |-> None,
              required_approving_review_count |-> None, require_last_push_approval |-> None,
              dismissal_restrictions |-> None]),
     enforce_admins |-> Some(v),
     restrictions |-> Some([users |-> Some(IF v THEN <<"alice">> ELSE <<>>),
                            teams |-> None, apps |-> None]),
     allow_force_pushes |-> Some(v),
     allow_deletions |-> Some(v),
     block_creations |-> Some(v),
     require_linear_history |-> Some(v),
     required_conversation_resolution |-> Some(v),
     required_signatures |-> Some(v)]

\* the rule for main that sets the fields of F, with the values of v
RuleWith(F, v) ==
    [f \in DOMAIN NoRule(MainBranch) |->
        IF f = "pattern" THEN MainBranch
        ELSE IF f \in F THEN RuleValues(v)[f] ELSE None]

DesiredRulePool == {RuleWith(F, TRUE) : F \in SUBSET RuleFields}

\* no current rule, or one that sets nothing, everything, or two fields, with
\* the desired values or with others, or one read for another pattern
CurrentRulePool ==
    {None}
    \cup {Some(RuleWith(F, FALSE)) :
             F \in {{}, RuleFields, {"enforce_admins", "required_status_checks"}}}
    \cup {Some(RuleWith(RuleFields, TRUE)),
          Some([RuleWith(RuleFields, FALSE) EXCEPT !.pattern = <<"release">>])}

\* a template whose file name ends in "config.yml", and one named config.yaml
TSiteConfig ==
    [path |-> TemplateDir \o <<"site-", "config", ".yml">>,
     contents |-> <<<<"name", <<"Site">>>>, <<"body", <<"c1">>>>>>]

TConfigYaml ==
    [path |-> TemplateDir \o <<"config", ".yaml">>, contents |-> <<<<"body", <<"y1">>>>>>]

TemplatePool == {TBug, TFeature, TConfig, TSiteConfig, TConfigYaml}

\* the most templates of a merged configuration
MaxTemplates == 3

\* the issue_templates of a merged configuration: one file per path, in any order
TemplateLists(pool, n) ==
    {<<>>} \cup UNION {{s \in [1..k -> pool] :
                          \A i, j \in 1..k : i # j => s[i].path # s[j].path} : k \in 1..n}

\* the most issues and pull requests that carry one label
MaxIssues == 21

\* n issues and pull requests, every third one a pull request
Carriers(n) == [i \in 1..n |-> [number |-> i, is_pr |-> i % 3 = 0]]

\* the remote whose label "old" is carried by the issues
RemoteCarrying(issues) ==
    [RemoteBase EXCEPT !.issues = [n \in Range(NameOrder) |->
                                     IF n = "old" THEN issues ELSE <<>>]]

\* the calls of diff_repo_settings
SettingsInputs ==
    {[fn |-> "diff_repo_settings", desired_settings |-> d, current_settings |-> c] :
        d \in DesiredSettingsPool, c \in ObservedSettingsPool}

\* the calls with lists of at most max_sets sets and at most max_labels labels
DesiredTemplatesInputs ==
    {[fn |-> "desired_templates", issue_templates |-> l] :
        l \in TemplateLists(TemplatePool, MaxTemplates)}

FnInputs(max_sets, max_labels) ==
    {[fn |-> "merge_sets_for_repo", sets |-> names] : names \in SetLists(max_sets)}
    \cup {[fn |-> "detect_template_conflicts", sets |-> names] : names \in SetLists(max_sets)}
    \cup {[fn |-> "prepare_merged", default_sets |-> d, sets |-> names] :
             d \in LoadLists(1), names \in LoadLists(max_sets - 1)}
    \cup {[fn |-> "diff_labels", desired |-> d, current |-> c] :
             d \in LabelLists(DesiredLabelPool, max_labels),
             c \in LabelLists(CurrentLabelPool, max_labels)}
    \cup SettingsInputs
    \cup DesiredTemplatesInputs
    \cup {[fn |-> "label_usage", issues |-> Carriers(n), include_details |-> b] :
             n \in 0..MaxIssues, b \in BOOLEAN}
    \cup {[fn |-> "merge_branch_rule", rule |-> d, current_rule |-> c] :
             d \in DesiredRulePool, c \in CurrentRulePool}

\* a function is about to be applied to one of the inputs
InitFnOver(inputs) ==
    /\ remote = [r \in Repos |-> RemoteBase]
    /\ root = [default_sets |-> <<>>, repos |-> <<>>]
    /\ run = 0
    /\ mode = "Plan"
    /\ verbose = FALSE
    /\ today = 1
    /\ pc = "call"
    /\ merged = <<>>
    /\ idx = 0
    /\ loc = LocInit
    /\ result = None
    /\ calls = <<>>
    /\ reports = <<>>
    /\ prev = NoPrev
    /\ args \in inputs
    /\ ret = None

InitFn == InitFnOver(FnInputs(MaxSets, MaxLabels))

CallMerge ==
    /\ args.fn = "merge_sets_for_repo"
    /\ ret = None
    /\ \E r \in merge_sets_for_repo(SetsOf(args.sets)) : ret' = Some(r)
    /\ UNCHANGED <<runVars, args>>

CallDetect ==
    /\ args.fn = "detect_template_conflicts"
    /\ ret = None
    /\ ret' = Some(detect_template_conflicts(SetsOf(args.sets)))
    /\ UNCHANGED <<runVars, args>>

CallPrepare ==
    /\ args.fn = "prepare_merged"
    /\ ret = None
    /\ \E r \in prepare_merged(RootOf(args.default_sets, args.sets), <<>>) : ret' = Some(r)
    /\ UNCHANGED <<runVars, args>>

CallDiffLabels ==
    /\ args.fn = "diff_labels"
    /\ ret = None
    /\ ret' = Some(diff_labels(args.desired, args.current))
    /\ UNCHANGED <<runVars, args>>

CallDiffRepoSettings ==
    /\ args.fn = "diff_repo_settings"
    /\ ret = None
    /\ ret' = Some(diff_repo_settings(args.desired_settings, args.current_settings))
    /\ UNCHANGED <<runVars, args>>

CallMergeBranchRule ==
    /\ args.fn = "merge_branch_rule"
    /\ ret = None
    /\ ret' = Some(merge_branch_rule(args.rule, args.current_rule))
    /\ UNCHANGED <<runVars, args>>

CallLabelUsage ==
    /\ args.fn = "label_usage"
    /\ ret = None
    /\ ret' = Some(label_usage(RemoteCarrying(args.issues), "old", args.include_details).value)
    /\ UNCHANGED <<runVars, args>>

CallDesiredTemplates ==
    /\ args.fn = "desired_templates"
    /\ ret = None
    /\ ret' = Some(DesiredTemplates(args.issue_templates))
    /\ UNCHANGED <<runVars, args>>

NextFn ==
    \/ CallMerge
    \/ CallDetect
    \/ CallPrepare
    \/ CallDiffLabels
    \/ CallDiffRepoSettings
    \/ CallMergeBranchRule
    \/ CallLabelUsage
    \/ CallDesiredTemplates

SpecFn == InitFn /\ [][NextFn]_vars

\* the tool's runs and diff_repo_settings applied on its own, side by side
InitSettings == Init \/ InitFnOver(SettingsInputs)

NextSettings == Next \/ CallDiffRepoSettings

SpecSettings == InitSettings /\ [][NextSettings]_vars


\* ------------------------------------------------------------------------
\* Properties of the functions
\* ------------------------------------------------------------------------
MergeCalled == args.fn = "merge_sets_for_repo" /\ IsSome(ret)

MergeArgs == SetsOf(args.sets)

MergeRet == Unwrap(ret)

\* a label definition with its colour normalised
NormLabel(l) == [l EXCEPT !.color = diff_normalize_color(@)]

LabelDefs(sets, n) == {l \in UNION {Range(sets[i].labels) : i \in DOMAIN sets} : l.name = n}

AllLabelNames(sets) == {l.name : l \in UNION {Range(sets[i].labels) : i \in DOMAIN sets}}

\* the label names that two of the sets define with disagreeing definitions
DisagreeingLabels(sets) ==
    {n \in AllLabelNames(sets) :
        \E a, b \in LabelDefs(sets, n) : NormLabel(a) # NormLabel(b)}

\* the label names that more than one position of the list defines
SharedLabels(sets) ==
    {n \in AllLabelNames(sets) :
        \E i, j \in DOMAIN sets :
            i # j /\ n \in {l.name : l \in Range(sets[i].labels)}
                  /\ n \in {l.name : l \in Range(sets[j].labels)}}

\* the template paths that occur more than once in the list of sets
RepeatedPaths(sets) ==
    LET at == UNION {{<<i, k>> : k \in DOMAIN sets[i].issue_templates} : i \in DOMAIN sets}
    IN  {sets[x[1]].issue_templates[x[2]].path : x \in
            {x \in at : \E y \in at :
                y # x /\ sets[y[1]].issue_templates[y[2]].path
                           = sets[x[1]].issue_templates[x[2]].path}}

ScalarKinds ==
    [repo_settings |-> "repo settings", branch_protection |-> "branch protection",
     checks |-> "checks"]

\* the scalar resources that two of the sets define with different values
DifferingScalars(sets) ==
    {f \in DOMAIN ScalarKinds :
        \E i, j \in DOMAIN sets :
            IsSome(sets[i][f]) /\ IsSome(sets[j][f]) /\ sets[i][f] # sets[j][f]}

\* C11 as stated: whenever two of the sets disagree on a label, the result is
\* LabelConflict for such a label, in whatever order the sets are given.
C11_LabelConflictAlways ==
    (MergeCalled /\ DisagreeingLabels(MergeArgs) # {})
        => /\ ~MergeRet.ok
           /\ MergeRet.err.kind = "LabelConflict"
           /\ MergeRet.err.what[1] \in DisagreeingLabels(MergeArgs)

\* C11 amended: when two of the sets disagree on a label the merge never
\* succeeds, in whatever order the sets are given; the error is LabelConflict
\* for a label that more than one set defines unless the sets also repeat a
\* template path or differ on a scalar resource, in which case the conflict
\* that is met first in the order of the sets is the one returned.
C11_DisagreementNeverMerges ==
    (MergeCalled /\ DisagreeingLabels(MergeArgs) # {})
        => /\ ~MergeRet.ok
           /\ MergeRet.err.kind \in {"LabelConflict", "TemplateConflict", "GenericConflict"}
           /\ (RepeatedPaths(MergeArgs) = {} /\ DifferingScalars(MergeArgs) = {})
                 => /\ MergeRet.err.kind = "LabelConflict"
                    /\ MergeRet.err.what[1] \in SharedLabels(MergeArgs)

C11_Witness ==
    /\ MergeCalled
    /\ Len(args.sets) >= 2
    /\ "feat" \in DisagreeingLabels(MergeArgs)
    /\ ~MergeRet.ok
    /\ MergeRet.err = [kind |-> "LabelConflict", what |-> <<"feat">>]


\* what two results of merge_sets_for_repo have in common when the claim calls
\* them the same: the templates are compared as a collection, their order in
\* the returned Vec being that of HashMap::into_values
SameOutcome(a, b) ==
    /\ a.ok = b.ok
    /\ a.ok => /\ a.cfg.labels = b.cfg.labels
               /\ Range(a.cfg.issue_templates) = Range(b.cfg.issue_templates)
               /\ Len(a.cfg.issue_templates) = Len(b.cfg.issue_templates)
               /\ a.cfg.repo_settings = b.cfg.repo_settings
               /\ a.cfg.branch_protection = b.cfg.branch_protection
               /\ a.cfg.checks = b.cfg.checks

\* C12: the result of merge_sets_for_repo does not depend on the order of the
\* sets: for any other ordering of the same sets either both calls fail with
\* a conflict or both succeed with the same labels, templates, repo settings,
\* branch protection and checks.
C12_MergeCommutes ==
    MergeCalled =>
        \A o \in Orders(args.sets) :
            \A other \in merge_sets_for_repo(SetsOf(o)) : SameOutcome(MergeRet, other)

C12_Witness ==
    /\ MergeCalled
    /\ MergeRet.ok
    /\ Len(MergeRet.cfg.labels) >= 2
    /\ Len(MergeRet.cfg.issue_templates) >= 2
    /\ IsSome(MergeRet.cfg.repo_settings)
    /\ \E o \in Orders(args.sets) : o[1] # args.sets[1]


\* C13: two definitions of one label count as identical exactly when their
\* descriptions are equal and their colours are equal after normalisation:
\* among sets that have no other conflict the merge succeeds exactly when no
\* label is defined with definitions that disagree in that sense.
C13_IdenticalUpToColourNormalisation ==
    (MergeCalled /\ RepeatedPaths(MergeArgs) = {} /\ DifferingScalars(MergeArgs) = {})
        => (MergeRet.ok <=> DisagreeingLabels(MergeArgs) = {})


\* the label names that the sets define with definitions unequal as written
UnequalLabels(sets) == {n \in AllLabelNames(sets) : Cardinality(LabelDefs(sets, n)) > 1}

AllTemplates(sets) == UNION {Range(sets[i].issue_templates) : i \in DOMAIN sets}

\* C14: a second template with a path already seen makes merge_sets_for_repo
\* return TemplateConflict(path), whatever the contents of the two templates:
\* sets that repeat a path never merge, a TemplateConflict names a repeated
\* path, and it is the result whenever no label or scalar conflict stops the
\* merge before the repeated path is met.  On success every template path of
\* the sets occurs exactly once in the result.
C14_RepeatedPathConflicts ==
    MergeCalled =>
        /\ RepeatedPaths(MergeArgs) # {} => ~MergeRet.ok
        /\ (~MergeRet.ok /\ MergeRet.err.kind = "TemplateConflict")
              => MergeRet.err.what \in RepeatedPaths(MergeArgs)
        /\ (RepeatedPaths(MergeArgs) # {} /\ UnequalLabels(MergeArgs) = {}
              /\ DifferingScalars(MergeArgs) = {})
              => MergeRet.err.kind = "TemplateConflict"
        /\ MergeRet.ok =>
              \A t \in AllTemplates(MergeArgs) :
                  Cardinality({k \in DOMAIN MergeRet.cfg.issue_templates :
                                 MergeRet.cfg.issue_templates[k].path = t.path}) = 1

\* the repeated path has the same contents in both sets
C14_Witness ==
    /\ MergeCalled
    /\ Range(args.sets) = {"base", "dup", "extra"}
    /\ ~MergeRet.ok
    /\ MergeRet.err = [kind |-> "TemplateConflict", what |-> TBug.path]


DetectCalled == args.fn = "detect_template_conflicts" /\ IsSome(ret)

\* Ok(()) is None, Err(reason) is Some(reason)
DetectRet == Unwrap(ret)

\* the contents the set at position i gives the canonical path
ContentsAt(sets, i, key) ==
    {t.contents : t \in {t \in Range(sets[i].issue_templates) : short_github_path(t.path) = key}}

CanonicalPaths(sets) == {short_github_path(t.path) : t \in AllTemplates(sets)}

\* the canonical paths that do not have the same contents in every set
ConflictingPaths(sets) ==
    {key \in CanonicalPaths(sets) :
        Cardinality(UNION {ContentsAt(sets, i, key) : i \in DOMAIN sets}) > 1}

FirstDefining(sets, key) ==
    CHOOSE i \in DOMAIN sets :
        /\ ContentsAt(sets, i, key) # {}
        /\ \A j \in 1..(i - 1) : ContentsAt(sets, j, key) = {}

\* C15: detect_template_conflicts returns Ok when every canonical path that
\* more than one set defines has the same contents in all of them; otherwise
\* it returns an error that names such a canonical path, the first set of the
\* list that defines it and a later set that defines it with other contents.
C15_DetectTemplateConflicts ==
    DetectCalled =>
        LET sets == SetsOf(args.sets)
        IN  /\ ConflictingPaths(sets) = {} <=> IsNone(DetectRet)
            /\ IsSome(DetectRet) =>
                  LET e == Unwrap(DetectRet)
                      i == FirstDefining(sets, e.key)
                  IN  /\ e.key \in ConflictingPaths(sets)
                      /\ e.first = sets[i].name
                      /\ \E j \in DOMAIN sets :
                            /\ j > i
                            /\ e.later = sets[j].name
                            /\ ContentsAt(sets, j, e.key) # {}
                            /\ ContentsAt(sets, j, e.key) # ContentsAt(sets, i, e.key)

\* the first set spells the path with a directory prefix, the second agrees
\* with it and the third does not
C15_Witness ==
    /\ DetectCalled
    /\ args.sets = <<"deep", "dup", "fork">>
    /\ DetectRet = Some([key |-> TBug.path, first |-> "deep", later |-> "fork"])

C15_WitnessOk ==
    /\ DetectCalled
    /\ args.sets = <<"base", "deep", "extra">>
    /\ IsNone(DetectRet)


PrepareCalled == args.fn = "prepare_merged" /\ IsSome(ret)

PrepareRet == Unwrap(ret)

\* the sets prepare_merged loads for the repository
PrepareSets ==
    LET names == args.default_sets \o args.sets
    IN  [i \in 1..Len(names) |-> load_set(names[i]).set]

\* the canonical paths that more than one position of the list defines
SharedPaths(sets) ==
    {key \in CanonicalPaths(sets) :
        \E i, j \in DOMAIN sets :
            i # j /\ ContentsAt(sets, i, key) # {} /\ ContentsAt(sets, j, key) # {}}

\* no set is listed twice
DistinctSets(sets) == \A i, j \in DOMAIN sets : i # j => sets[i].name # sets[j].name

\* C16: at prepare_merged, sets that define the same template path with
\* identical contents are permitted: when the different sets of a repository
\* have no other conflict, the resolution succeeds and the merged
\* configuration holds every template path once.
C16_IdenticalTemplatesPermitted ==
    (PrepareCalled /\ PrepareSets # <<>> /\ DistinctSets(PrepareSets)
       /\ SharedPaths(PrepareSets) # {} /\ ConflictingPaths(PrepareSets) = {}
       /\ UnequalLabels(PrepareSets) = {} /\ DifferingScalars(PrepareSets) = {})
        => /\ PrepareRet.ok
           /\ Len(PrepareRet.merged) = 1
           /\ \A key \in CanonicalPaths(PrepareSets) :
                 Cardinality({k \in DOMAIN PrepareRet.merged[1].cfg.issue_templates :
                     short_github_path(PrepareRet.merged[1].cfg.issue_templates[k].path)
                         = key}) = 1


\* the value the first set that defines the resource gives it, None when no
\* set defines it
FirstValue(sets, f) ==
    IF \E i \in DOMAIN sets : IsSome(sets[i][f])
    THEN sets[CHOOSE i \in DOMAIN sets :
                 IsSome(sets[i][f]) /\ \A j \in 1..(i - 1) : IsNone(sets[j][f])][f]
    ELSE None

\* what C17 and its amendment share: a successful merge gives every scalar
\* resource the value of the first set that defines it, and leaves a resource
\* that no set defines absent
ScalarsOfSuccess ==
    MergeRet.ok => \A f \in DOMAIN ScalarKinds : MergeRet.cfg[f] = FirstValue(MergeArgs, f)

\* C17 as stated: the merged value of a scalar resource is that of the first
\* set defining it, an undefined resource stays absent, a later equal value
\* is tolerated, and a later different value yields GenericConflict naming
\* the kind of the resource.
C17_ScalarFirstWinsOrGenericConflict ==
    MergeCalled =>
        /\ ScalarsOfSuccess
        /\ \A f \in DifferingScalars(MergeArgs) :
              /\ ~MergeRet.ok
              /\ MergeRet.err = [kind |-> "GenericConflict", what |-> <<ScalarKinds[f]>>]

\* C17 amended: as stated, except that sets which differ on a scalar resource
\* never merge and the error is the first conflict met in the order of the
\* sets: it is GenericConflict naming the kind of the resource when that is
\* the only conflict among the sets, and a GenericConflict always names the
\* kind of a resource on which two sets differ.
C17_ScalarFirstWinsOrConflict ==
    MergeCalled =>
        /\ ScalarsOfSuccess
        /\ DifferingScalars(MergeArgs) # {} => ~MergeRet.ok
        /\ (~MergeRet.ok /\ MergeRet.err.kind = "GenericConflict")
              => \E f \in DifferingScalars(MergeArgs) : MergeRet.err.what = <<ScalarKinds[f]>>
        /\ \A f \in DOMAIN ScalarKinds :
              (DifferingScalars(MergeArgs) = {f} /\ UnequalLabels(MergeArgs) = {}
                 /\ RepeatedPaths(MergeArgs) = {})
              => /\ ~MergeRet.ok
                 /\ MergeRet.err = [kind |-> "GenericConflict", what |-> <<ScalarKinds[f]>>]

\* an equal redefinition is tolerated and a later different value conflicts
C17_Witness ==
    /\ MergeCalled
    /\ args.sets = <<"base", "same", "chk2">>
    /\ MergeRet = [ok |-> FALSE, err |-> [kind |-> "GenericConflict", what |-> <<"checks">>]]


DiffLabelsCalled == args.fn = "diff_labels" /\ IsSome(ret)

LabelDiff == Unwrap(ret)

NamesOf(s) == {s[i].name : i \in DOMAIN s}

\* the list holds exactly the labels of the set, each once
HoldsExactly(s, labels) == Range(s) = labels /\ Len(s) = Cardinality(labels)

\* C18: diff_labels(desired, current) puts in to_add the desired labels whose
\* name current lacks, in to_update the desired labels whose name current has
\* with another normalised colour or another description (one entry each,
\* none when both are equal), and in to_remove the current labels whose name
\* desired lacks, their colour normalised; each list is sorted by name and no
\* name is in two of the lists.
C18_DiffLabels ==
    DiffLabelsCalled =>
        LET desired == Range(args.desired)
            current == Range(args.current)
        IN  /\ HoldsExactly(LabelDiff.to_add,
                   {w \in desired : w.name \notin NamesOf(args.current)})
            /\ HoldsExactly(LabelDiff.to_update,
                   {w \in desired : \E c \in current :
                       /\ c.name = w.name
                       /\ \/ diff_normalize_color(Some(c.color)) # diff_normalize_color(w.color)
                          \/ c.description # w.description})
            /\ HoldsExactly(LabelDiff.to_remove,
                   {[name |-> c.name, color |-> diff_normalize_color(Some(c.color)),
                     description |-> c.description] :
                       c \in {c \in current : c.name \notin NamesOf(args.desired)}})
            /\ IsSortedByName(LabelDiff.to_add)
            /\ IsSortedByName(LabelDiff.to_update)
            /\ IsSortedByName(LabelDiff.to_remove)
            /\ NamesOf(LabelDiff.to_add) \cap NamesOf(LabelDiff.to_update) = {}
            /\ NamesOf(LabelDiff.to_add) \cap NamesOf(LabelDiff.to_remove) = {}
            /\ NamesOf(LabelDiff.to_update) \cap NamesOf(LabelDiff.to_remove) = {}

\* a label to add, one to update because of its description, one to remove
\* whose colour is normalised
C18_Witness ==
    /\ DiffLabelsCalled
    /\ args.desired = <<[name |-> "wip", color |-> Some(<<"aaaaaa">>), description |-> None],
                        LBugDesc>>
    /\ LabelDiff.to_add = <<[name |-> "wip", color |-> Some(<<"aaaaaa">>), description |-> None]>>
    /\ LabelDiff.to_update = <<LBugDesc>>
    /\ LabelDiff.to_remove =
          <<[name |-> "old", color |-> Some(<<"00ff00">>), description |-> Some("old")]>>


DiffSettingsCalled == args.fn = "diff_repo_settings" /\ IsSome(ret)

SettingChanges == Unwrap(ret).changes

\* the positions of the change entries of a field
EntriesOf(changes, f) == {k \in DOMAIN changes : changes[k].field = f}

\* the value the observed settings report for a field
Observed(current, f) ==
    IF IsSome(current.pull_requests) THEN Unwrap(current.pull_requests)[f] ELSE None

\* C19: diff_repo_settings emits a change entry for a boolean pull-request
\* field exactly when the field is set in desired and the observed value is
\* another one or unset; a field unset in desired never gets an entry, and
\* without desired.pull_requests the diff is empty.  The entry carries the
\* observed and the desired value.
C19_BooleanFieldChanges ==
    DiffSettingsCalled =>
        IF IsNone(args.desired_settings.pull_requests) THEN SettingChanges = <<>>
        ELSE \A f \in Range(BoolFields) :
                LET want == Unwrap(args.desired_settings.pull_requests)[f]
                    have == Observed(args.current_settings, f)
                    entries == EntriesOf(SettingChanges, f)
                IN  /\ entries # {} <=> (IsSome(want) /\ have # want)
                    /\ Cardinality(entries) <= 1
                    /\ \A k \in entries :
                          /\ SettingChanges[k].desired = BoolStr(Unwrap(want))
                          /\ SettingChanges[k].current =
                                IF IsSome(have) THEN Some(BoolStr(Unwrap(have))) ELSE None

\* only allow_merge_commit is desired; the remote has it true and reports
\* other fields too: one entry
C19_Witness ==
    /\ DiffSettingsCalled
    /\ IsSome(args.current_settings.pull_requests)
    /\ Observed(args.current_settings, "delete_branch_on_merge") = Some(FALSE)
    /\ SettingChanges = <<[field |-> "allow_merge_commit", current |-> Some(<<"true">>),
                           desired |-> <<"false">>]>>

\* a desired field the remote does not report
C19_WitnessUnset ==
    /\ DiffSettingsCalled
    /\ IsNone(args.current_settings.pull_requests)
    /\ SettingChanges = <<[field |-> "allow_auto_merge", current |-> None,
                           desired |-> <<"true">>]>>


OptionFields == {"merge_commit_message_option", "squash_merge_option"}

\* the desired settings set one of the two options
SetsAnOption(settings) ==
    /\ IsSome(settings)
    /\ IsSome(Unwrap(settings).pull_requests)
    /\ \E f \in OptionFields : IsSome(Unwrap(Unwrap(settings).pull_requests)[f])

\* diff_repo_settings: one entry, current unset, for each option that is set
OptionAlwaysChanges ==
    (DiffSettingsCalled /\ IsSome(args.desired_settings.pull_requests)) =>
        \A f \in OptionFields :
            IsSome(Unwrap(args.desired_settings.pull_requests)[f]) =>
                /\ Cardinality(EntriesOf(SettingChanges, f)) = 1
                /\ \A k \in EntriesOf(SettingChanges, f) : IsNone(SettingChanges[k].current)

\* the settings step of the apply arm calls update_repo_settings for a
\* repository whose desired settings set an option
OptionAlwaysWritten ==
    (pc = "apply_settings" /\ pc' # pc /\ SetsAnOption(DesiredSettings)) =>
        \E k \in NewCalls :
            /\ calls'[k].repo = Cur.name
            /\ calls'[k].call.op = "update_repo_settings"

\* C20: whenever merge_commit_message_option or squash_merge_option is set in
\* the desired settings, diff_repo_settings emits exactly one change entry
\* for the option, its current value reported unset, for every variant of the
\* option and whatever the observed settings are; so every apply run that
\* reaches the settings step of such a repository calls update_repo_settings.
C20_OptionsAlwaysWritten == []OptionAlwaysChanges /\ [][OptionAlwaysWritten]_vars

\* the remote reports the very option that is desired
C20_Witness ==
    /\ DiffSettingsCalled
    /\ IsSome(args.current_settings.pull_requests)
    /\ Observed(args.current_settings, "squash_merge_option") = Some("PullRequestTitle")
    /\ IsSome(args.desired_settings.pull_requests)
    /\ Unwrap(args.desired_settings.pull_requests).squash_merge_option = Some("PullRequestTitle")
    /\ Cardinality(EntriesOf(SettingChanges, "squash_merge_option")) = 1

\* a second apply run, after a successful one, writes the settings again
C20_WitnessSecondRun ==
    /\ SecondApply
    /\ pc = "apply_bp"
    /\ SetsAnOption(DesiredSettings)
    /\ calls # <<>>
    /\ calls[Len(calls)].call.op = "update_repo_settings"
    /\ calls[Len(calls)].ok


MergeRuleCalled == args.fn = "merge_branch_rule" /\ IsSome(ret)

MergedRule == Unwrap(ret)

\* C21: merge_branch_rule(desired, current) gives each of the ten optional
\* fields desired's value when desired sets it, and current's value when
\* desired leaves it unset and there is a current rule; the pattern is
\* desired's; without a current rule the result is desired.
C21_MergeBranchRule ==
    MergeRuleCalled =>
        /\ MergedRule.pattern = args.rule.pattern
        /\ IsNone(args.current_rule) => MergedRule = args.rule
        /\ \A f \in RuleFields :
              /\ IsSome(args.rule[f]) => MergedRule[f] = args.rule[f]
              /\ (IsNone(args.rule[f]) /\ IsSome(args.current_rule))
                    => MergedRule[f] = Unwrap(args.current_rule)[f]

\* desired leaves enforce_admins unset and sets allow_deletions; the current
\* rule sets both otherwise
C21_Witness ==
    /\ MergeRuleCalled
    /\ IsNone(args.rule.enforce_admins)
    /\ args.rule.allow_deletions = Some(TRUE)
    /\ args.current_rule = Some(RuleWith(RuleFields, FALSE))
    /\ MergedRule.enforce_admins = Some(FALSE)
    /\ MergedRule.allow_deletions = Some(TRUE)


\* ------------------------------------------------------------------------
\* Properties of the runs: branch protection, files, labels, settings
\* ------------------------------------------------------------------------
\* the step of handle_repos that computes bp_changes has been taken
BpDiffed == pc = "diff_bp" /\ pc' = "stage_files"

\* the positions of bp_changes that are for the pattern
QueuedFor(changes, pattern) == {i \in 1..Len(changes) : changes[i].pattern = pattern}

\* a field the desired rule sets has another value in the current rule
SetFieldDiffers(rule, current) ==
    \E f \in RuleFields : IsSome(rule[f]) /\ rule[f] # Unwrap(current)[f]

\* the previous run was an apply run that returned Ok
AfterApply == prev.mode = "Apply" /\ prev.ok

\* C22: for each desired branch-protection rule a change is queued exactly
\* when there is no current rule or the merge of desired and current differs
\* from the current rule (a field that desired sets has another value); the
\* action is Create without a current rule and Update with one, and the
\* target is the merge.  In the run after an apply run that stored its rules
\* no change is queued.
C22_RuleChangeQueued ==
    [][BpDiffed =>
        /\ \A k \in 1..Len(DesiredRules) :
              LET rule == DesiredRules[k]
                  current == get_branch_protection(CurRemote, rule.pattern).value
                  queued == QueuedFor(loc'.bp_changes, rule.pattern)
              IN  /\ Cardinality(queued) <= 1
                  /\ queued # {} <=> (IsNone(current) \/ SetFieldDiffers(rule, current))
                  /\ \A i \in queued :
                        /\ loc'.bp_changes[i].action
                              = (IF IsNone(current) THEN "Create" ELSE "Update")
                        /\ loc'.bp_changes[i].target = merge_branch_rule(rule, current)
        /\ (AfterApply /\ ~CurRemote.bp_forbidden) => loc'.bp_changes = <<>>]_vars

\* an Update is queued: the current rule sets enforce_admins otherwise
C22_WitnessUpdate ==
    /\ pc = "stage_files"
    /\ Len(loc.bp_changes) = 1
    /\ loc.bp_changes[1].action = "Update"
    /\ loc.bp_changes[1].target.allow_deletions = Some(FALSE)

\* the run after an apply run that stored the merge of the desired rule and a
\* current rule with a field of its own: nothing is queued
C22_Witness ==
    /\ AfterApply
    /\ pc = "stage_files"
    /\ DesiredRules # <<>>
    /\ loc.bp_changes = <<>>
    /\ Len(CurRemote.protection) = 1
    /\ CurRemote.protection[1].allow_deletions = Some(FALSE)
    /\ CurRemote.protection[1].enforce_admins = Some(TRUE)


\* the step of handle_repos that classifies the desired files has been taken
FilesStaged == pc = "stage_files" /\ pc' = "diff_labels"

\* the files of the branch the desired files are compared with: the head of
\* the open governance pull request, else the default branch
CompareFiles ==
    LET ref == IF IsSome(loc.compare_branch) THEN loc.compare_branch
               ELSE CurRemote.default_branch
    IN  IF IsSome(ref) /\ HasBranch(CurRemote, Unwrap(ref))
        THEN BranchOf(CurRemote, Unwrap(ref)).files ELSE {}

InAdd(l, tpl) == \E i \in 1..Len(l.templates_add) : l.templates_add[i] = tpl

UpdatesOf(l, tpl) == {i \in 1..Len(l.templates_update) : l.templates_update[i].tpl = tpl}

\* C23: every desired .github file is classified against the comparison
\* branch: add when it is missing there, update with the SHA of the remote
\* file when it is there with other contents, nothing when the contents are
\* the same; never two of the three.
C23_FilesClassified ==
    [][FilesStaged =>
        /\ loc'.desired_templates = DesiredTemplates(Cur.cfg.issue_templates)
        /\ \A k \in 1..Len(loc'.desired_templates) :
              LET tpl == loc'.desired_templates[k]
                  there == HasFile(CompareFiles, tpl.path)
                  same == there /\ FileAt(CompareFiles, tpl.path).contents = tpl.contents
              IN  /\ InAdd(loc', tpl) <=> ~there
                  /\ UpdatesOf(loc', tpl) # {} <=> (there /\ ~same)
                  /\ \A i \in UpdatesOf(loc', tpl) :
                        loc'.templates_update[i].sha
                            = BlobSha(FileAt(CompareFiles, tpl.path).contents)]_vars


\* the files under .github/ISSUE_TEMPLATE/ on the comparison branch that are
\* not among the desired files
StaleFiles(desired) ==
    {f \in CompareFiles :
        /\ StartsWith(f.path, TemplateDir)
        /\ ~\E k \in 1..Len(desired) : desired[k].path = f.path}

\* the step of the apply arm that writes the staged files has returned
FilesApplied == pc = "apply_files" /\ pc' = "apply_labels"

\* C24: every file under .github/ISSUE_TEMPLATE/ on the comparison branch
\* (the head of the open governance pull request, else the base branch) that
\* is not a desired file is staged for removal with its SHA, and the apply
\* run deletes it.
C24_StaleTemplatesRemoved ==
    [][/\ FilesStaged =>
            \A f \in StaleFiles(loc'.desired_templates) :
                \E i \in 1..Len(loc'.templates_remove) :
                    /\ loc'.templates_remove[i].path = f.path
                    /\ loc'.templates_remove[i].sha = BlobSha(f.contents)
       /\ FilesApplied =>
            \A f \in StaleFiles(loc.desired_templates) :
                \E i \in NewCalls :
                    /\ calls'[i].ok
                    /\ calls'[i].call.op = "delete_file"
                    /\ calls'[i].call.path = f.path
                    /\ calls'[i].call.sha = BlobSha(f.contents)]_vars


\* the summary of the apply arm has been printed for the repository
ApplyReported == pc = "apply_pr" /\ Len(reports') = Len(reports) + 1

\* the branch-protection step of the apply arm has made all its calls
BpApplied == pc = "apply_bp" /\ \A i \in NewCalls : calls'[i].ok

\* C25: a 403 from the branch-protection read or write is a soft skip: the
\* call returns Ok and the run goes on to the files, the labels and the pull
\* request, no rule is applied, and the summary of the apply run lists no
\* branch-protection change.
C25_ForbiddenIsSoftSkip ==
    [][(pc \in {"diff_bp", "apply_bp", "apply_pr"} /\ CurRemote.bp_forbidden) =>
        /\ remote'[Cur.name].protection = remote[Cur.name].protection
        /\ BpApplied => pc' = "apply_branch"
        /\ ApplyReported => reports'[Len(reports')].branch_protection = <<>>]_vars

\* the parts of C25 about the calls and the remote: no rule is applied and
\* the run goes on
C25_SkipKeepsRunning ==
    [][(pc \in {"diff_bp", "apply_bp", "apply_pr"} /\ CurRemote.bp_forbidden) =>
        /\ remote'[Cur.name].protection = remote[Cur.name].protection
        /\ BpApplied => pc' = "apply_branch"]_vars

\* an apply run on a repository whose branch protection is forbidden has
\* printed its summary, after set_branch_protection returned Ok
C25_SkipReached ==
    /\ mode = "Apply"
    /\ reports # <<>>
    /\ remote[reports[1].repo].bp_forbidden
    /\ reports[1].branch_protection # <<>>
    /\ \E i \in 1..Len(calls) : calls[i].ok /\ calls[i].call.op = "set_branch_protection"


\* the apply arm has asked for the governance branch to be created although
\* the branch was there, and create_branch_from has returned Ok
CreatedOverExisting ==
    /\ pc = "apply_branch"
    /\ pc' = "apply_files"
    /\ HasBranch(CurRemote, GovernanceBranch(loc.base_branch))
    /\ \E i \in NewCalls : calls'[i].ok /\ calls'[i].call.op = "create_branch_from"

\* C26: when the apply arm creates the governance branch and the branch is
\* already there, create_branch_from returns Ok and the rest of the run of
\* the repository meets no refusal: GitHub accepts every write of the staged
\* files to the branch and then the pull-request call.
C26_ExistingBranchIsSuccess ==
    [][/\ (pc = "apply_branch" /\ HasBranch(CurRemote, GovernanceBranch(loc.base_branch)))
            => create_branch_from(CurRemote, GovernanceBranch(loc.base_branch),
                                  get_branch_sha(CurRemote, loc.base_branch).value).ok
       /\ CreatedOverExisting =>
            LET files == ExecOps(remote'[Cur.name], FileOps', 0, Cur.name)
            IN  /\ files.ok
                /\ ExecOps(files.remote, PrOps', 0, Cur.name).ok]_vars

\* the part of C26 about create_branch_from: the step that asks for a branch
\* that is there goes on to the files
C26_CreateReturnsOk ==
    [][(pc = "apply_branch" /\ HasBranch(CurRemote, GovernanceBranch(loc.base_branch)))
            => create_branch_from(CurRemote, GovernanceBranch(loc.base_branch),
                                  get_branch_sha(CurRemote, loc.base_branch).value).ok]_vars

\* the branch was there when the apply arm asked for it
C26_CreatedOverExistingReached ==
    /\ pc = "apply_files"
    /\ IsNone(loc.apply_pr)
    /\ loc.branch_name = Some(GovMain)
    /\ \E f \in BranchOf(CurRemote, GovMain).files : f = TBugOther


LabelUsageCalled == args.fn = "label_usage" /\ IsSome(ret)

\* the Option<Vec<LabelUsageEntry>> returned
Usage == Unwrap(ret)

\* C27: label_usage returns None exactly when no issue or pull request
\* carries the label and a non-empty list otherwise; the other mode gives
\* None for the same remote exactly when this one does; the verbose mode
\* reads at most two pages, so it lists at most twice the page size.
C27_LabelUsage ==
    LabelUsageCalled =>
        /\ IsNone(Usage) <=> args.issues = <<>>
        /\ IsSome(Usage) => Unwrap(Usage) # <<>>
        /\ IsNone(Usage)
              <=> IsNone(label_usage(RemoteCarrying(args.issues), "old",
                                     ~args.include_details).value)
        /\ (args.include_details /\ IsSome(Usage)) =>
              /\ Len(Unwrap(Usage)) <= 2 * VerbosePageLimit
              /\ \A i \in 1..Len(Unwrap(Usage)) :
                    /\ Unwrap(Usage)[i].number = args.issues[i].number
                    /\ Unwrap(Usage)[i].is_pr = args.issues[i].is_pr

\* more carriers than two pages hold: the verbose mode stops after the second
C27_Witness ==
    /\ LabelUsageCalled
    /\ args.include_details
    /\ Len(args.issues) > 2 * VerbosePageLimit
    /\ Len(Unwrap(Usage)) = 2 * VerbosePageLimit

\* one carrier, quiet mode: the first page alone shows the label is in use
C27_WitnessQuiet ==
    /\ LabelUsageCalled
    /\ ~args.include_details
    /\ Len(args.issues) = 1
    /\ Usage = Some(<<[number |-> 1, url |-> Some(1), is_pr |-> FALSE]>>)


\* the label step of the apply arm has made all its calls
LabelsApplied == pc = "apply_labels" /\ pc' = "apply_pr"

\* diff_labels of the desired labels against the labels the remote has after
\* the step
Rediff == diff_labels(Cur.cfg.labels, list_repo_labels(remote'[Cur.name]).value)

\* C28: once the label step of an apply run has made its calls, the desired
\* labels diffed against the resulting remote labels give nothing to add and
\* nothing to update, and every remote label left that is not desired is one
\* whose removal was blocked; also for a desired label without colour or
\* description.
C28_LabelsConverge ==
    [][LabelsApplied =>
        /\ Rediff.to_add = <<>>
        /\ Rediff.to_update = <<>>
        /\ LabelNames(Rediff.to_remove) \subseteq BlockedNames(loc.blocked_removals)]_vars


\* the desired setting that a field of the repository is written from
SettingOf(f) ==
    CASE f \in {"merge_commit_title", "merge_commit_message"} -> "merge_commit_message_option"
      [] f \in {"squash_merge_commit_title", "squash_merge_commit_message"}
            -> "squash_merge_option"
      [] OTHER -> f

\* the desired repo settings of the repository set the field
DesiredSets(cfg, f) ==
    /\ IsSome(cfg.repo_settings)
    /\ IsSome(Unwrap(cfg.repo_settings).pull_requests)
    /\ IsSome(Unwrap(Unwrap(cfg.repo_settings).pull_requests)[SettingOf(f)])

\* the merged configuration of a repository of this run
CfgOf(r) == merged[CHOOSE k \in 1..Len(merged) : merged[k].name = r].cfg

\* C29: apply calls update_repo_settings only for a repository with desired
\* repo settings and a non-empty settings diff, and no step of a run changes
\* a setting of a repository that its desired settings leave unset.
C29_UnsetSettingsUntouched ==
    [][/\ \A i \in NewCalls :
            calls'[i].call.op = "update_repo_settings" =>
                /\ mode = "Apply"
                /\ IsSome(DesiredSettings)
                /\ calls'[i].call.settings = Unwrap(DesiredSettings)
                /\ IsSome(loc.settings_diff)
                /\ Unwrap(loc.settings_diff).changes # <<>>
       /\ \A r \in Repos : \A f \in DOMAIN remote[r].settings :
            remote'[r].settings[f] # remote[r].settings[f] =>
                /\ \E k \in 1..Len(merged) : merged[k].name = r
                /\ DesiredSets(CfgOf(r), f)]_vars

\* update_repo_settings has turned allow_merge_commit off and left
\* allow_squash_merge, which the desired settings do not set, as it was
C29_Witness ==
    /\ pc = "apply_bp"
    /\ \E i \in 1..Len(calls) : calls[i].ok /\ calls[i].call.op = "update_repo_settings"
    /\ ~DesiredSets(Cur.cfg, "allow_squash_merge")
    /\ DesiredSets(Cur.cfg, "allow_merge_commit")
    /\ CurRemote.settings.allow_merge_commit = Some(FALSE)
    /\ CurRemote.settings.allow_squash_merge = Some(TRUE)


DesiredTemplatesCalled == args.fn = "desired_templates" /\ IsSome(ret)

\* the desired file list
DesiredFiles == Unwrap(ret)

\* the positions of the desired file list that hold a file at the path
FilesAt(files, path) == {k \in 1..Len(files) : files[k].path = path}

\* the entries of an index file that name the file
EntriesFor(contents, file) ==
    {k \in 1..Len(contents) : contents[k] = <<"entry.file", file>>}

\* C30: every issue template of the merged configuration other than
\* .github/ISSUE_TEMPLATE/config.yml is in the desired file list and has one
\* entry in the synthesized index; the index is not one of its own entries;
\* with at least one template the desired file list has exactly one file at
\* .github/ISSUE_TEMPLATE/config.yml, the synthesized one.
C30_TemplatesAndIndex ==
    (DesiredTemplatesCalled /\ args.issue_templates # <<>>) =>
        /\ Cardinality(FilesAt(DesiredFiles, IndexPath)) = 1
        /\ LET index == DesiredFiles[CHOOSE k \in FilesAt(DesiredFiles, IndexPath) : TRUE]
           IN  /\ \E k \in 1..Len(index.contents) : index.contents[k][1] = "issue_templates"
               /\ EntriesFor(index.contents, ConfigYml) = {}
               /\ \A i \in 1..Len(args.issue_templates) :
                     LET tpl == args.issue_templates[i]
                     IN  tpl.path # IndexPath =>
                            /\ \E k \in 1..Len(DesiredFiles) : DesiredFiles[k] = tpl
                            /\ Cardinality(EntriesFor(index.contents,
                                                      Unwrap(file_name(tpl.path)))) = 1

====
